---- MODULE Spec2Model ----
(***************************************************************************)
(* Verification model of the chat API (app/api/chat.py), the RAG workflow  *)
(* engine (src/rag/workflow.py) and the process-wide current-collection    *)
(* pointer (get_settings().current_collection_name).                        *)
(*                                                                         *)
(* One HTTP request is served at a time by the handler modelled here; the  *)
(* POST /switch-kb handler, which has no suspension point, may run while   *)
(* the request is suspended on the workflow.                                *)
(*                                                                         *)
(* The pointer is the plain attribute that chat.py and                     *)
(* knowledge_base_manager.py read and assign on the cached Settings        *)
(* object; config/settings.py declares no field of that name.              *)
(*                                                                         *)
(* The knowledge-base search, the web search and the chat model are the    *)
(* environment: each call returns one of the results its client code can   *)
(* hand back, or raises.                                                   *)
(***************************************************************************)
EXTENDS Integers, Sequences, FiniteSets, TLC

(***************************************************************************)
(* Bounds                                                                  *)
(***************************************************************************)
\* largest number of documents the knowledge-base search returns
MaxKb == 2
\* largest number of results the web search returns
MaxWeb == 2
\* largest number of increments the chat model streams
MaxChunks == 2
\* largest number of files in one POST /upload-files
MaxFiles == 2
\* largest number of entries the processing log grows to
MaxLog == 2
\* temporary files left on disk
MaxTmp == 2
\* largest number of documents handed to one VectorStoreManager call
MaxDocs == 3
\* largest batch_size argument of add_documents
MaxBatch == 2
\* VectorStoreManager calls in one behaviour
MaxCalls == 2
\* largest number of documents handed to rerank
MaxRerank == 3
\* largest top_n argument of rerank
MaxTopN == 4
\* clients built for one name of one kind
MaxBuilt == 2
\* requests sent to the application
MaxRequests == 3
MaxTasks == 3
MaxHits == 2
MaxAdders == 3
MaxThreads == 3
MaxConstructions == 2

(***************************************************************************)
(* Values                                                                  *)
(***************************************************************************)
None == "None"
UNBOUND == "UNBOUND"
absent == "absent"

\* names a request may carry; "kb_missing" is never a directory
CollectionNames == {"kb_a", "kb_b", "kb_missing"}
ExistingAtStart == {"kb_a", "kb_b"}
SearchStrategies == {"both", "web_only"}

\* add_node / add_edge order of the graph
StageOrder == <<"query_analyzer", "parallel_retrieval", "information_fusion",
                "context_builder", "response_generator">>
\* stage names passed to the stream callback by run()
StageNotice == <<"analysis", "retrieval", "fusion", "context", "generation">>
\* keys of the messages table of generate_stream
messages == {"start", "analysis", "retrieval", "fusion", "context",
             "generation", "error_prefix", "default_response"}

RECURSIVE SeqsUpTo(_, _)
SeqsUpTo(S, n) ==
    IF n = 0 THEN {<<>>}
    ELSE LET shorter == SeqsUpTo(S, n - 1)
         IN  shorter \cup {Append(s, x) : s \in {t \in shorter : Len(t) = n - 1}, x \in S}

RECURSIVE Flatten(_)
Flatten(ss) == IF ss = <<>> THEN <<>> ELSE Head(ss) \o Flatten(Tail(ss))

RECURSIVE SelectSeq2(_, _)
SelectSeq2(s, tag) ==
    IF s = <<>> THEN <<>>
    ELSE IF Head(s).source = tag THEN <<Head(s)>> \o SelectSeq2(Tail(s), tag)
         ELSE SelectSeq2(Tail(s), tag)

Min(a, b) == IF a < b THEN a ELSE b

VARIABLES
    collections,              \* sub-directories of the knowledge-base root
    current_collection_name,  \* get_settings().current_collection_name
    kb_manager_collection,    \* collection the global KnowledgeBaseManager is bound to
    request,                  \* the ChatRequest being served, or None
    handler_pc,               \* position of the route handler
    original_collection,      \* local of chat_with_assistant
    entry_collection,         \* pointer value when the request entered the handler
    http_status,              \* status of the HTTP response, 0 while none
    http_error,               \* what produced an error response
    chat_response,            \* body of the ChatResponse
    state,                    \* RAGState of the workflow run
    wf_pc,                    \* position of RAGWorkflow.run
    stream_callback,          \* TRUE when run() was given a callback
    stage_log,                \* begin/end events of the stages, in order
    knowledge_task,           \* outcome of _retrieve_knowledge_task
    web_task,                 \* outcome of _search_web_task
    kb_search_collection,     \* collection the knowledge search ran against
    gen,                      \* locals of generate_response
    produced,                 \* frames appended by sync_callback, in order
    stream_queue,             \* deque shared by workflow task and generator
    emitted,                  \* frames yielded to the client, in order
    workflow_complete,        \* nonlocal flag of generate_stream
    environ,                  \* os.environ["CURRENT_COLLECTION_NAME"], None while unset
    created,                  \* names create_knowledge_base made and nothing deleted since
    processing_log,           \* processing_history of the global manager's log file
    kb_op,                    \* the last knowledge-base operation and what it returned
    workflow_error,           \* nonlocal exception of generate_stream
    switch_status,            \* status of the last POST /switch-kb response
    tmp_files,                \* temporary files of POST /upload-file on disk
    upload,                   \* the last POST /upload-file call and its response
    store,                    \* chunks held by the vector database, by source and adding call
    vsm,                      \* the running VectorStoreManager call and its locals
    vs_calls,                 \* VectorStoreManager calls made so far
    web,                      \* the last WebSearchManager.search call and its trace
    rr,                       \* the last DashScopeRerank.rerank call and its result
    registry,                 \* caches of ModelConfig and the clients built for them
    reg_op,                   \* the last call of a ModelConfig factory and its outcome
    app_state,                \* app.state of the FastAPI application
    served,                   \* requests the application has answered
    init_attempts,            \* times initialize_models began to initialise the models
    http_response,            \* the response to the last request
    built_in_prompts,         \* PromptManager.built_in_prompts
    custom_prompts,           \* PromptManager.custom_prompts
    prompt_op,                \* the last PromptManager operation and what it returned
    chat_tasks,               \* the POST /chat requests running on the event loop, by task
    pointer_at_start,         \* the pointer before the first of these requests started
    client,                   \* the running call of a wrapper of the vector-store client
    add_tasks,                \* the add_file calls running on the event loop, by task
    alm,                      \* the class attributes and the instance of AsyncLoopManager
    alm_threads               \* the threads constructing AsyncLoopManager, by thread

vars == <<collections, current_collection_name, kb_manager_collection, request,
          handler_pc, original_collection, entry_collection, http_status,
          http_error, chat_response, state, wf_pc, stream_callback, stage_log,
          knowledge_task, web_task, kb_search_collection, gen, produced,
          stream_queue, emitted, workflow_complete, workflow_error,
          switch_status, environ, created, processing_log, kb_op,
          tmp_files, upload, store, vsm, vs_calls, web, rr, registry,
          reg_op, app_state, served, init_attempts, http_response,
          built_in_prompts, custom_prompts, prompt_op,
          chat_tasks, pointer_at_start,
          client,
          add_tasks,
          alm, alm_threads>>

\* the services beside the chat API and the manager's collections
uploadVars == <<tmp_files, upload>>
vectorVars == <<store, vsm, vs_calls>>
searchVars == <<web, rr>>
registryVars == <<registry, reg_op>>
gatewayVars == <<app_state, served, init_attempts, http_response>>
promptVars == <<built_in_prompts, custom_prompts, prompt_op>>
concVars == <<chat_tasks, pointer_at_start>>
clientVars == <<client>>
adderVars == <<add_tasks>>
loopVars == <<alm, alm_threads>>
lateVars == <<promptVars, concVars, clientVars, adderVars, loopVars>>
svcVars == <<uploadVars, vectorVars, searchVars, registryVars, gatewayVars,
            lateVars>>
kbVars == <<environ, created, processing_log, kb_op, svcVars>>
poolVars == <<collections, kb_manager_collection, switch_status, kbVars>>
handlerVars == <<request, handler_pc, original_collection, entry_collection,
                 http_status, http_error, chat_response>>
workflowVars == <<state, wf_pc, stream_callback, stage_log, knowledge_task,
                  web_task, kb_search_collection, gen>>
streamVars == <<stream_queue, emitted, workflow_complete, workflow_error>>
\* the chat API and the manager's collections
appVars == <<collections, current_collection_name, kb_manager_collection,
             switch_status, environ, created, processing_log, kb_op,
             handlerVars, workflowVars, produced, streamVars>>
\* every variable of the chat API, the manager and the services above
earlyVars == <<appVars, uploadVars, vectorVars, searchVars, registryVars,
               gatewayVars>>
\* what the operations of one of the later services leave alone
promptFrame == <<earlyVars, concVars, clientVars, adderVars, loopVars>>
concFrame == <<collections, kb_manager_collection, switch_status, environ,
    created, processing_log, kb_op, handlerVars, workflowVars, produced,
    streamVars, uploadVars, vectorVars, searchVars, registryVars,
    gatewayVars, promptVars, clientVars, adderVars, loopVars>>
clientFrame == <<earlyVars, promptVars, concVars, adderVars, loopVars>>
adderFrame == <<collections, current_collection_name, kb_manager_collection,
    switch_status, environ, created, kb_op, handlerVars, workflowVars,
    produced, streamVars, uploadVars, vectorVars, searchVars, registryVars,
    gatewayVars, promptVars, concVars, clientVars, loopVars>>
loopFrame == <<earlyVars, promptVars, concVars, clientVars, adderVars>>


(***************************************************************************)
(* Frames of the event stream                                              *)
(***************************************************************************)
Frame(type, stage, content) == [type |-> type, stage |-> stage, content |-> content]
DoneLine == Frame("DONE", "", <<>>)

\* generate_stream.sync_callback: the frames one call appends to the deque
sync_callback(stage, data) ==
    IF stage \in messages THEN <<Frame("progress", stage, <<>>)>>
    ELSE IF data # <<>> THEN <<Frame("chunk", "", data)>>
    ELSE <<>>

(***************************************************************************)
(* RAGState                                                                *)
(***************************************************************************)
EmptyMetadata ==
    [analyzed |-> FALSE,
     knowledge_error |-> absent, knowledge_retrieved |-> -1,
     web_error |-> absent, web_retrieved |-> -1,
     total_results |-> -1, successful_sources |-> <<>>,
     retrieval_mode |-> absent, parallel_error |-> absent,
     total_sources |-> -1, fused_sources |-> <<>>,
     knowledge_context |-> -1, web_context |-> -1,
     prompt_type_used |-> absent, response_length |-> -1,
     generation_successful |-> absent, generation_error |-> absent]

\* RAGState(query=query)
RAGState ==
    [documents |-> <<>>, web_results |-> <<>>, context |-> 0,
     response |-> <<>>, messages |-> 0, metadata |-> EmptyMetadata]

NoTask == [status |-> "unscheduled", result |-> <<>>]
NoGen == [template |-> absent, model_output |-> <<>>, next |-> 0,
          full_response |-> <<>>, e |-> None]

\* the visible response of the except branch of generate_response
\* ("Sorry, an error occurred while generating the response: ..."), as the
\* token 0; the text increments of the chat model are the tokens 1, 2, ...
ErrorResponse == <<0>>

\* what a task of the gather can settle to: it raises, or returns a list; a
\* web result carries the content the provider sent, which
\* TavilySearchEngine._parse_tavily_results passes on when it is null
KnowledgeOutcomes ==
    {[status |-> "raised", result |-> <<>>]} \cup
    {[status |-> "ok", result |-> [i \in 1..n |-> "text"]] : n \in 0..MaxKb}
WebOutcomes ==
    {[status |-> "raised", result |-> <<>>]} \cup
    {[status |-> "ok", result |-> r] : r \in SeqsUpTo({"text", "null"}, MaxWeb)}
\* what the chat model streams: increment i carries the text <<i>> or is empty
ModelOutputs ==
    UNION {[1..n -> {"text", "empty"}] : n \in 0..MaxChunks}
ChunkContent(out, i) == IF out[i] = "text" THEN <<i>> ELSE <<>>
ModelText(out) == Flatten([i \in 1..Len(out) |-> ChunkContent(out, i)])

(***************************************************************************)
(* RAGWorkflow: bookkeeping shared by the stage actions                    *)
(***************************************************************************)
StageIndex(name) == CHOOSE i \in 1..Len(StageOrder) : StageOrder[i] = name

\* run() notifies the callback with the stage name right before the stage
Notified(i) == IF stream_callback THEN sync_callback(StageNotice[i], <<>>) ELSE <<>>
NoticeLog(i) == IF stream_callback THEN <<<<"notify", i>>>> ELSE <<>>

\* run_workflow of generate_stream sets the nonlocals as soon as run() ends
RunEnds(exc) ==
    IF stream_callback
    THEN /\ workflow_complete' = TRUE
         /\ workflow_error' = exc
    ELSE UNCHANGED <<workflow_complete, workflow_error>>


(***************************************************************************)
(* RAGWorkflow.analyze_query                                               *)
(***************************************************************************)
\* analyze_query with the edge to information_fusion instead of
\* parallel_retrieval
analyze_query_skips_retrieval ==
    /\ wf_pc = "query_analyzer"
    /\ produced' = produced \o Notified(1)
    /\ stream_queue' = stream_queue \o Notified(1)
    /\ stage_log' = stage_log \o NoticeLog(1) \o <<<<"begin", 1>>, <<"end", 1>>>>
    /\ state' = [state EXCEPT !.metadata.analyzed = TRUE]
    /\ wf_pc' = "information_fusion"
    /\ UNCHANGED <<poolVars, current_collection_name, handlerVars, stream_callback,
                   knowledge_task, web_task, kb_search_collection, gen, emitted,
                   workflow_complete, workflow_error>>

analyze_query ==
    /\ wf_pc = "query_analyzer"
    /\ produced' = produced \o Notified(1)
    /\ stream_queue' = stream_queue \o Notified(1)
    /\ stage_log' = stage_log \o NoticeLog(1) \o <<<<"begin", 1>>, <<"end", 1>>>>
    /\ state' = [state EXCEPT !.metadata.analyzed = TRUE]
    /\ wf_pc' = "parallel_retrieval"
    /\ UNCHANGED <<poolVars, current_collection_name, handlerVars, stream_callback,
                   knowledge_task, web_task, kb_search_collection, gen, emitted,
                   workflow_complete, workflow_error>>

(***************************************************************************)
(* RAGWorkflow.parallel_retrieval                                          *)
(***************************************************************************)
\* gather without return_exceptions: the first exception leaves the await
gather_propagating(kt, wt) ==
    [raised |-> kt.status = "raised" \/ wt.status = "raised",
     knowledge_results |-> kt, web_results |-> wt]

\* asyncio.gather(knowledge_task, web_task, return_exceptions=True): an
\* exception of a task is handed back as that task's result
gather(kt, wt) == [raised |-> FALSE, knowledge_results |-> kt, web_results |-> wt]

\* _determine_actual_mode that takes any successful source for the hybrid case
determine_actual_mode_any(successful_sources) ==
    IF successful_sources = <<>> THEN "No Results"
    ELSE IF Len(successful_sources) >= 1 THEN "Hybrid Mode"
    ELSE "Unknown Mode"

determine_actual_mode(successful_sources) ==
    IF successful_sources = <<>> THEN "No Results"
    ELSE IF Len(successful_sources) = 2 THEN "Hybrid Mode"
    ELSE IF \E i \in 1..Len(successful_sources) : successful_sources[i] = "Knowledge Base"
         THEN "Knowledge Base Mode"
    ELSE IF \E i \in 1..Len(successful_sources) : successful_sources[i] = "Web Search"
         THEN "Web Mode"
    ELSE "Unknown Mode"

\* the body of parallel_retrieval after the await
process_retrieval(st, g) ==
    IF g.raised
    THEN [st EXCEPT !.metadata.parallel_error = "raised"]
    ELSE
    LET kerr == g.knowledge_results.status = "raised"
        werr == g.web_results.status = "raised"
        kb_count == IF kerr THEN 0 ELSE Len(g.knowledge_results.result)
        web_count == IF werr THEN 0 ELSE Len(g.web_results.result)
        successful_sources ==
            (IF ~kerr /\ kb_count > 0 THEN <<"Knowledge Base">> ELSE <<>>) \o
            (IF ~werr /\ web_count > 0 THEN <<"Web Search">> ELSE <<>>)
    IN  [st EXCEPT
            !.documents = IF kerr THEN @ ELSE @ \o g.knowledge_results.result,
            !.web_results = IF werr THEN @ ELSE @ \o g.web_results.result,
            !.metadata.knowledge_error = IF kerr THEN "raised" ELSE @,
            !.metadata.knowledge_retrieved = kb_count,
            !.metadata.web_error = IF werr THEN "raised" ELSE @,
            !.metadata.web_retrieved = web_count,
            !.metadata.total_results = kb_count + web_count,
            !.metadata.successful_sources = successful_sources,
            !.metadata.retrieval_mode = determine_actual_mode(successful_sources)]

\* the stage up to the await of the gather: both tasks are scheduled
parallel_retrieval_start ==
    /\ wf_pc = "parallel_retrieval"
    /\ produced' = produced \o Notified(2)
    /\ stream_queue' = stream_queue \o Notified(2)
    /\ stage_log' = stage_log \o NoticeLog(2) \o <<<<"begin", 2>>>>
    /\ knowledge_task' = [status |-> "running", result |-> <<>>]
    /\ web_task' = [status |-> "running", result |-> <<>>]
    /\ wf_pc' = "gather"
    /\ UNCHANGED <<poolVars, current_collection_name, handlerVars, state,
                   stream_callback, kb_search_collection, gen, emitted,
                   workflow_complete, workflow_error>>

\* _retrieve_knowledge_task: the search goes to the global manager, whose
\* vector store was bound to a collection when the manager was constructed
retrieve_knowledge_task ==
    /\ wf_pc = "gather"
    /\ knowledge_task.status = "running"
    /\ \E outcome \in KnowledgeOutcomes : knowledge_task' = outcome
    /\ kb_search_collection' = kb_manager_collection
    /\ UNCHANGED <<poolVars, current_collection_name, handlerVars, state, wf_pc,
                   stream_callback, stage_log, web_task, gen, produced,
                   streamVars>>

\* _search_web_task
search_web_task ==
    /\ wf_pc = "gather"
    /\ web_task.status = "running"
    /\ \E outcome \in WebOutcomes : web_task' = outcome
    /\ UNCHANGED <<poolVars, current_collection_name, handlerVars, state, wf_pc,
                   stream_callback, stage_log, knowledge_task,
                   kb_search_collection, gen, produced, streamVars>>

\* the gather resumes once both tasks have settled
parallel_retrieval ==
    /\ wf_pc = "gather"
    /\ knowledge_task.status # "running"
    /\ web_task.status # "running"
    /\ state' = process_retrieval(state, gather(knowledge_task, web_task))
    /\ stage_log' = Append(stage_log, <<"end", 2>>)
    /\ wf_pc' = "information_fusion"
    /\ UNCHANGED <<poolVars, current_collection_name, handlerVars,
                   stream_callback, knowledge_task, web_task,
                   kb_search_collection, gen, produced, streamVars>>


(***************************************************************************)
(* RAGWorkflow.fuse_information                                            *)
(***************************************************************************)
all_sources(st) ==
    [i \in 1..Len(st.documents) |->
        [content |-> st.documents[i], source |-> "knowledge_base"]] \o
    [i \in 1..Len(st.web_results) |->
        [content |-> st.web_results[i], source |-> "web_search"]]

fuse_information ==
    /\ wf_pc = "information_fusion"
    /\ produced' = produced \o Notified(3)
    /\ stream_queue' = stream_queue \o Notified(3)
    /\ stage_log' = stage_log \o NoticeLog(3) \o <<<<"begin", 3>>, <<"end", 3>>>>
    /\ state' = [state EXCEPT !.metadata.total_sources = Len(all_sources(state)),
                              !.metadata.fused_sources = all_sources(state)]
    /\ wf_pc' = "context_builder"
    /\ UNCHANGED <<poolVars, current_collection_name, handlerVars, stream_callback,
                   knowledge_task, web_task, kb_search_collection, gen, emitted,
                   workflow_complete, workflow_error>>

(***************************************************************************)
(* RAGWorkflow.build_context                                               *)
(***************************************************************************)
\* the sources whose content is sliced: the first three of a subset
FirstThree(s) == SubSeq(s, 1, Min(3, Len(s)))

\* source['content'][:500] raises TypeError when the content is null
SliceRaises(s) == \E i \in 1..Len(FirstThree(s)) : s[i].content = "null"

\* a context block is the join of one part per source, "" when there is none;
\* the block is modelled by its number of parts
ContextParts(s) == Len(FirstThree(s))

build_context ==
    /\ wf_pc = "context_builder"
    /\ produced' = produced \o Notified(4)
    /\ stream_queue' = stream_queue \o Notified(4)
    /\ LET sources == state.metadata.fused_sources
           knowledge_sources == SelectSeq2(sources, "knowledge_base")
           web_sources == SelectSeq2(sources, "web_search")
           knowledge_context == ContextParts(knowledge_sources)
           web_context == ContextParts(web_sources)
       IN  IF SliceRaises(knowledge_sources) \/ SliceRaises(web_sources)
           THEN \* the exception leaves run(); nothing was stored yet
                /\ stage_log' = stage_log \o NoticeLog(4) \o <<<<"begin", 4>>>>
                /\ wf_pc' = "raised"
                /\ RunEnds("TypeError")
                /\ UNCHANGED state
           ELSE /\ stage_log' = stage_log \o NoticeLog(4) \o
                                    <<<<"begin", 4>>, <<"end", 4>>>>
                /\ state' = [state EXCEPT
                       !.metadata.knowledge_context = knowledge_context,
                       !.metadata.web_context = web_context,
                       !.context = (IF knowledge_context > 0 THEN 1 ELSE 0) +
                                   (IF web_context > 0 THEN 1 ELSE 0)]
                /\ wf_pc' = "response_generator"
                /\ UNCHANGED <<workflow_complete, workflow_error>>
    /\ UNCHANGED <<poolVars, current_collection_name, handlerVars, stream_callback,
                   knowledge_task, web_task, kb_search_collection, gen, emitted>>

(***************************************************************************)
(* RAGWorkflow.generate_response                                           *)
(***************************************************************************)
\* PromptManager.select_adaptive_prompt: both branches name the same template
select_adaptive_prompt == "rag_qa_adaptive"

\* prompt selection that follows the strategy the caller asked for
select_prompt_by_strategy(metadata) ==
    IF request.search_strategy = "web_only" THEN "web_only"
    ELSE IF metadata.retrieval_mode = "Knowledge Base Mode" THEN "knowledge_only"
    ELSE IF metadata.retrieval_mode = "Web Mode" THEN "web_only"
    ELSE IF metadata.retrieval_mode = "No Results" THEN "fallback"
    ELSE select_adaptive_prompt

\* the template generate_response renders, "fallback" when it renders none
select_prompt(metadata) ==
    LET retrieval_mode == IF metadata.retrieval_mode = absent THEN "Hybrid Mode"
                          ELSE metadata.retrieval_mode
        knowledge_context == IF metadata.knowledge_context = -1 THEN 0
                             ELSE metadata.knowledge_context
        web_context == IF metadata.web_context = -1 THEN 0
                       ELSE metadata.web_context
    IN  IF retrieval_mode = "Knowledge Base Mode" /\ knowledge_context > 0
        THEN "knowledge_only"
        ELSE IF retrieval_mode = "Web Mode" /\ web_context > 0
        THEN "web_only"
        ELSE IF retrieval_mode = "Hybrid Mode"
        THEN select_adaptive_prompt
        ELSE "fallback"

\* the bookkeeping after the chat model answered
generation_succeeded(st, response, prompt_type) ==
    [st EXCEPT !.response = response,
               !.messages = @ + 2,
               !.metadata.prompt_type_used = prompt_type,
               !.metadata.response_length = Len(response),
               !.metadata.generation_successful = "True"]

\* an except branch that lets the exception go on
generation_failed_reraises(st) == [raised |-> TRUE, state |-> st]

\* the except branch: the error text becomes the response and
\* generate_response returns the state
generation_failed(st) ==
    [raised |-> FALSE,
     state |-> [st EXCEPT !.response = ErrorResponse,
                          !.metadata.generation_error = "raised",
                          !.metadata.generation_successful = "False"]]

\* generate_response returns (or, were the except branch to re-raise, raises)
\* and with it run()
GenerateEnds(outcome) ==
    /\ state' = outcome.state
    /\ stage_log' = IF outcome.raised THEN stage_log
                    ELSE Append(stage_log, <<"end", 5>>)
    /\ wf_pc' = IF outcome.raised THEN "raised" ELSE "returned"
    /\ RunEnds(IF outcome.raised THEN "Exception" ELSE None)

\* prompt selection and rendering, up to the call of the chat model; a
\* template (built-in or its custom override) may fail to render, the
\* fallback instruction is an f-string and cannot
generate_response_start ==
    /\ wf_pc = "response_generator"
    /\ produced' = produced \o Notified(5)
    /\ stream_queue' = stream_queue \o Notified(5)
    /\ LET template == select_prompt(state.metadata)
       IN  \E rendered \in (IF template = "fallback" THEN {TRUE} ELSE BOOLEAN) :
           \E model_output \in ModelOutputs :
              /\ gen' = [template |-> template,
                         model_output |-> IF rendered THEN model_output ELSE <<>>,
                         next |-> 1, full_response |-> <<>>,
                         e |-> IF rendered THEN None ELSE "ValueError"]
              /\ IF rendered
                 THEN /\ stage_log' = stage_log \o NoticeLog(5) \o <<<<"begin", 5>>>>
                      /\ wf_pc' = IF stream_callback THEN "astream" ELSE "ainvoke"
                      /\ UNCHANGED <<state, workflow_complete, workflow_error>>
                 ELSE /\ model_output = <<>>
                      /\ LET outcome == generation_failed(state)
                         IN  /\ state' = outcome.state
                             /\ stage_log' = stage_log \o NoticeLog(5) \o
                                    (IF outcome.raised THEN <<<<"begin", 5>>>>
                                     ELSE <<<<"begin", 5>>, <<"end", 5>>>>)
                             /\ wf_pc' = IF outcome.raised THEN "raised" ELSE "returned"
                             /\ RunEnds(IF outcome.raised THEN "Exception" ELSE None)
    /\ UNCHANGED <<poolVars, current_collection_name, handlerVars, stream_callback,
                   knowledge_task, web_task, kb_search_collection, emitted>>

\* one increment of chat_model.astream
astream_chunk ==
    /\ wf_pc = "astream"
    /\ gen.next <= Len(gen.model_output)
    /\ LET content == ChunkContent(gen.model_output, gen.next)
       IN  /\ gen' = [gen EXCEPT !.next = @ + 1,
                                 !.full_response = @ \o content]
           /\ produced' = produced \o
                  (IF content # <<>> THEN sync_callback("chunk", content) ELSE <<>>)
           /\ stream_queue' = stream_queue \o
                  (IF content # <<>> THEN sync_callback("chunk", content) ELSE <<>>)
    /\ UNCHANGED <<poolVars, current_collection_name, handlerVars, state, wf_pc,
                   stream_callback, stage_log, knowledge_task, web_task,
                   kb_search_collection, emitted, workflow_complete,
                   workflow_error>>

\* chat_model.astream is exhausted
astream_end ==
    /\ wf_pc = "astream"
    /\ gen.next > Len(gen.model_output)
    /\ GenerateEnds([raised |-> FALSE,
                     state |-> generation_succeeded(state, gen.full_response,
                                                    gen.template)])
    /\ UNCHANGED <<poolVars, current_collection_name, handlerVars, stream_callback,
                   knowledge_task, web_task, kb_search_collection, gen, produced,
                   stream_queue, emitted>>

\* chat_model.astream raises, before or between increments
astream_raises ==
    /\ wf_pc = "astream"
    /\ gen' = [gen EXCEPT !.e = "Exception"]
    /\ GenerateEnds(generation_failed(state))
    /\ UNCHANGED <<poolVars, current_collection_name, handlerVars, stream_callback,
                   knowledge_task, web_task, kb_search_collection, produced,
                   stream_queue, emitted>>

\* chat_model.ainvoke returns the whole text, or raises
ainvoke ==
    /\ wf_pc = "ainvoke"
    /\ \E answered \in BOOLEAN :
          /\ gen' = [gen EXCEPT !.e = IF answered THEN None ELSE "Exception"]
          /\ GenerateEnds(IF answered
                          THEN [raised |-> FALSE,
                                state |-> generation_succeeded(state,
                                              ModelText(gen.model_output), gen.template)]
                          ELSE generation_failed(state))
    /\ UNCHANGED <<poolVars, current_collection_name, handlerVars, stream_callback,
                   knowledge_task, web_task, kb_search_collection, produced,
                   streamVars>>


(***************************************************************************)
(* POST /chat: chat_with_assistant                                         *)
(***************************************************************************)
\* KnowledgeBaseManager.list_knowledge_bases: the directories of the root
list_knowledge_bases == collections

\* rag_workflow.run(query, stream_callback) up to its first stage
RunStarts(callback) ==
    /\ state' = RAGState
    /\ wf_pc' = "query_analyzer"
    /\ stream_callback' = callback
    /\ stage_log' = <<>>
    /\ knowledge_task' = NoTask
    /\ web_task' = NoTask
    /\ kb_search_collection' = None
    /\ gen' = NoGen

\* chat_except without the restoring assignment
chat_except_keeps_swap(collection_name, original, pointer) ==
    IF collection_name # None /\ original = UNBOUND
    THEN [pointer |-> pointer, status |-> 500, error |-> "UnboundLocalError"]
    ELSE [pointer |-> pointer, status |-> 500, error |-> "HTTPException"]

\* "except Exception as e" of chat_with_assistant: restores the pointer from
\* the local original_collection and raises HTTPException(500); reading the
\* local before it was assigned raises UnboundLocalError instead
chat_except(collection_name, original, pointer) ==
    IF collection_name # None
    THEN IF original = UNBOUND
         THEN [pointer |-> pointer, status |-> 500, error |-> "UnboundLocalError"]
         ELSE [pointer |-> original, status |-> 500, error |-> "HTTPException"]
    ELSE [pointer |-> pointer, status |-> 500, error |-> "HTTPException"]

\* the handler from its entry to the await of rag_workflow.run
chat_with_assistant ==
    /\ handler_pc = "idle"
    /\ \E collection_name \in CollectionNames \cup {None},
          search_strategy \in SearchStrategies :
          /\ request' = [kind |-> "chat", collection_name |-> collection_name,
                         search_strategy |-> search_strategy]
          /\ entry_collection' = current_collection_name
          /\ IF collection_name # None /\ collection_name \notin list_knowledge_bases
             THEN \* HTTPException(404) is raised inside the try block
                  LET handled == chat_except(collection_name, original_collection,
                                             current_collection_name)
                  IN  /\ current_collection_name' = handled.pointer
                      /\ http_status' = handled.status
                      /\ http_error' = handled.error
                      /\ handler_pc' = "done"
                      /\ UNCHANGED <<original_collection, workflowVars>>
             ELSE /\ IF collection_name # None
                     THEN /\ original_collection' = current_collection_name
                          /\ current_collection_name' = collection_name
                     ELSE UNCHANGED <<original_collection, current_collection_name>>
                  /\ RunStarts(FALSE)
                  /\ handler_pc' = "await_run"
                  /\ UNCHANGED <<http_status, http_error>>
    /\ UNCHANGED <<poolVars, chat_response, produced, streamVars>>

\* the handler after rag_workflow.run returned
chat_returns ==
    /\ handler_pc = "await_run"
    /\ request.kind = "chat"
    /\ wf_pc = "returned"
    /\ chat_response' =
           [response |-> state.response,
            sources |-> [knowledge_base |-> Len(state.documents),
                         web_search |-> Len(state.web_results)],
            retrieval_strategy |-> IF request.search_strategy # "both"
                                   THEN request.search_strategy ELSE absent,
            collection_used |-> IF request.collection_name # None
                                THEN request.collection_name
                                ELSE current_collection_name,
            search_strategy |-> request.search_strategy,
            generation_successful |-> state.metadata.generation_successful]
    /\ current_collection_name' = IF request.collection_name # None
                                  THEN original_collection
                                  ELSE current_collection_name
    /\ http_status' = 200
    /\ handler_pc' = "done"
    /\ UNCHANGED <<poolVars, request, original_collection, entry_collection,
                   http_error, workflowVars, produced, streamVars>>

\* the handler after rag_workflow.run raised
chat_raises ==
    /\ handler_pc = "await_run"
    /\ request.kind = "chat"
    /\ wf_pc = "raised"
    /\ LET handled == chat_except(request.collection_name, original_collection,
                                  current_collection_name)
       IN  /\ current_collection_name' = handled.pointer
           /\ http_status' = handled.status
           /\ http_error' = handled.error
    /\ handler_pc' = "done"
    /\ UNCHANGED <<poolVars, request, original_collection, entry_collection,
                   chat_response, workflowVars, produced, streamVars>>

(***************************************************************************)
(* POST /switch-kb/{collection_name}: switch_knowledge_base                *)
(***************************************************************************)
\* the handler has no await: it runs whole, also while a chat request is
\* suspended on its workflow
switch_knowledge_base ==
    /\ handler_pc \in {"idle", "await_run"}
    /\ \E collection_name \in CollectionNames :
          IF collection_name \notin list_knowledge_bases
          THEN /\ switch_status' = 404
               /\ UNCHANGED current_collection_name
          ELSE /\ switch_status' = 200
               /\ current_collection_name' = collection_name
    /\ UNCHANGED <<collections, kb_manager_collection, kbVars, handlerVars,
                   workflowVars, produced, streamVars>>


(***************************************************************************)
(* POST /chat/stream: chat_stream.generate_stream                          *)
(***************************************************************************)
\* closing_frames falling through from the except branch to the closing
\* frames of the try block
closing_frames_falls_through(error) ==
    IF error # None
    THEN <<Frame("error", "", <<>>), Frame("complete", "", <<>>), DoneLine>>
    ELSE <<Frame("complete", "", <<>>), DoneLine>>

\* the frames generate_stream yields once the queue is drained: the complete
\* frame and the [DONE] line, or, from its except branch, the error frame
closing_frames(error) ==
    IF error # None
    THEN <<Frame("error", "", <<>>)>>
    ELSE <<Frame("complete", "", <<>>), DoneLine>>

\* the generator up to asyncio.create_task(run_workflow()): the start frame
\* opens the response and the workflow starts in the background; of the
\* request the generator reads the query only
generate_stream ==
    /\ handler_pc = "idle"
    /\ request' = [kind |-> "stream", collection_name |-> None,
                   search_strategy |-> "both"]
    /\ entry_collection' = current_collection_name
    /\ http_status' = 200
    /\ emitted' = <<Frame("start", "", <<>>)>>
    /\ stream_queue' = <<>>
    /\ produced' = <<>>
    /\ workflow_complete' = FALSE
    /\ workflow_error' = None
    /\ RunStarts(TRUE)
    /\ handler_pc' = "loop_check"
    /\ UNCHANGED <<poolVars, current_collection_name, original_collection,
                   http_error, chat_response>>

\* "while not workflow_complete"
stream_loop_check ==
    /\ handler_pc = "loop_check"
    /\ handler_pc' = IF workflow_complete THEN "final_drain" ELSE "drain"
    /\ UNCHANGED <<poolVars, current_collection_name, request, original_collection,
                   entry_collection, http_status, http_error, chat_response,
                   workflowVars, produced, streamVars>>

\* the drain loop with pop() in place of popleft()
stream_yield_pop ==
    /\ handler_pc \in {"drain", "final_drain"}
    /\ stream_queue # <<>>
    /\ emitted' = Append(emitted, stream_queue[Len(stream_queue)])
    /\ stream_queue' = SubSeq(stream_queue, 1, Len(stream_queue) - 1)
    /\ UNCHANGED <<poolVars, current_collection_name, handlerVars, workflowVars,
                   produced, workflow_complete, workflow_error>>

\* "yield stream_queue.popleft()" of either drain loop
stream_yield ==
    /\ handler_pc \in {"drain", "final_drain"}
    /\ stream_queue # <<>>
    /\ emitted' = Append(emitted, Head(stream_queue))
    /\ stream_queue' = Tail(stream_queue)
    /\ UNCHANGED <<poolVars, current_collection_name, handlerVars, workflowVars,
                   produced, workflow_complete, workflow_error>>

\* a polling loop that never looks at workflow_complete again
stream_sleep_spins ==
    /\ handler_pc = "drain"
    /\ stream_queue = <<>>
    /\ handler_pc' = "drain"
    /\ UNCHANGED <<poolVars, current_collection_name, request, original_collection,
                   entry_collection, http_status, http_error, chat_response,
                   workflowVars, produced, streamVars>>

\* the queue is empty: asyncio.sleep(0.1), then the loop condition again
stream_sleep ==
    /\ handler_pc = "drain"
    /\ stream_queue = <<>>
    /\ handler_pc' = "loop_check"
    /\ UNCHANGED <<poolVars, current_collection_name, request, original_collection,
                   entry_collection, http_status, http_error, chat_response,
                   workflowVars, produced, streamVars>>

\* after the last drain: re-raise the recorded error or close the stream
stream_close ==
    /\ handler_pc = "final_drain"
    /\ stream_queue = <<>>
    /\ emitted' = emitted \o closing_frames(workflow_error)
    /\ handler_pc' = "done"
    /\ UNCHANGED <<poolVars, current_collection_name, request, original_collection,
                   entry_collection, http_status, http_error, chat_response,
                   workflowVars, produced, stream_queue, workflow_complete,
                   workflow_error>>

(***************************************************************************)
(* The next request                                                        *)
(***************************************************************************)
NoRequest == [kind |-> None, collection_name |-> None, search_strategy |-> None]
NoResponse ==
    [response |-> <<>>, sources |-> [knowledge_base |-> 0, web_search |-> 0],
     retrieval_strategy |-> absent, collection_used |-> None,
     search_strategy |-> None, generation_successful |-> absent]

IdleHandler ==
    /\ request = NoRequest
    /\ handler_pc = "idle"
    /\ original_collection = UNBOUND
    /\ entry_collection = None
    /\ http_status = 0
    /\ http_error = None
    /\ chat_response = NoResponse
    /\ state = RAGState
    /\ wf_pc = "idle"
    /\ stream_callback = FALSE
    /\ stage_log = <<>>
    /\ knowledge_task = NoTask
    /\ web_task = NoTask
    /\ kb_search_collection = None
    /\ gen = NoGen
    /\ produced = <<>>
    /\ stream_queue = <<>>
    /\ emitted = <<>>
    /\ workflow_complete = FALSE
    /\ workflow_error = None

\* the response was delivered; the handler's frame is gone
request_done ==
    /\ handler_pc = "done"
    /\ request' = NoRequest
    /\ handler_pc' = "idle"
    /\ original_collection' = UNBOUND
    /\ entry_collection' = None
    /\ http_status' = 0
    /\ http_error' = None
    /\ chat_response' = NoResponse
    /\ state' = RAGState
    /\ wf_pc' = "idle"
    /\ stream_callback' = FALSE
    /\ stage_log' = <<>>
    /\ knowledge_task' = NoTask
    /\ web_task' = NoTask
    /\ kb_search_collection' = None
    /\ gen' = NoGen
    /\ produced' = <<>>
    /\ stream_queue' = <<>>
    /\ emitted' = <<>>
    /\ workflow_complete' = FALSE
    /\ workflow_error' = None
    /\ UNCHANGED <<poolVars, current_collection_name>>


(***************************************************************************)
(* KnowledgeBaseManager: the life cycle of collections                     *)
(***************************************************************************)
\* a name as the caller types it is a sequence of characters; a directory
\* name is the string they spell
RawNames ==
    { <<>>, <<" ">>,
      <<"k", "b", "_", "a">>, <<"k", "b", " ", "a">>,
      <<" ", "k", "b", "_", "c">>, <<"k", "b", "/", "c">> }
KbNames == CollectionNames \cup {"kb_c"}
ManagerNames == {"kb_a", "kb_c"}
Whitespace == {" "}
WordChars == {"a", "b", "c", "k", "_"}

RECURSIVE Join(_)
Join(s) == IF s = <<>> THEN "" ELSE Head(s) \o Join(Tail(s))

\* str.strip()
RECURSIVE lstrip(_)
lstrip(s) == IF s # <<>> /\ Head(s) \in Whitespace THEN lstrip(Tail(s)) ELSE s
RECURSIVE rstrip(_)
rstrip(s) ==
    IF s # <<>> /\ s[Len(s)] \in Whitespace
    THEN rstrip(SubSeq(s, 1, Len(s) - 1)) ELSE s
strip(s) == rstrip(lstrip(s))

\* re.sub(r'[^\w\-_]', '_', collection_name.strip())
clean_name(collection_name) ==
    LET s == strip(collection_name)
    IN  Join([i \in 1..Len(s) |->
                 IF s[i] \in WordChars \cup {"-", "_"} THEN s[i] ELSE "_"])

NoOp == [op |-> "none", name |-> None, confirm |-> FALSE, success |-> FALSE,
         outcome |-> "none", drop |-> "none", vector_calls |-> 0,
         appended |-> 0, input |-> <<>>, existed |-> FALSE, changed |-> FALSE,
         results |-> [total_files |-> 0, successful_files |-> 0,
                      failed_files |-> 0, results |-> <<>>]]

\* KnowledgeBaseManager(collection_name): the VectorStoreManager is built
\* first and may raise; then the directories are made with exist_ok
KnowledgeBaseManager_init(collection_name, dirs, vector_ok) ==
    IF vector_ok
    THEN [raised |-> FALSE, dirs |-> dirs \cup {collection_name}]
    ELSE [raised |-> TRUE, dirs |-> dirs]

\* create_knowledge_base without the look among the existing names
create_knowledge_base_unchecked(collection_name, dirs, vector_ok) ==
    IF strip(collection_name) = <<>>
    THEN [success |-> FALSE, outcome |-> "empty", name |-> None, dirs |-> dirs]
    ELSE LET clean == clean_name(collection_name)
             made == KnowledgeBaseManager_init(clean, dirs \cup {clean}, vector_ok)
         IN  [success |-> ~made.raised,
              outcome |-> IF made.raised THEN "error" ELSE "created",
              name |-> clean, dirs |-> made.dirs]

\* KnowledgeBaseManager.create_knowledge_base: what it returns and the
\* directories it leaves
create_knowledge_base(collection_name, dirs, vector_ok) ==
    IF strip(collection_name) = <<>>
    THEN [success |-> FALSE, outcome |-> "empty", name |-> None, dirs |-> dirs]
    ELSE LET clean == clean_name(collection_name)
         IN  IF clean \in dirs
             THEN [success |-> FALSE, outcome |-> "exists", name |-> clean,
                   dirs |-> dirs]
             ELSE LET made == KnowledgeBaseManager_init(clean, dirs \cup {clean},
                                                        vector_ok)
                  IN  [success |-> ~made.raised,
                       outcome |-> IF made.raised THEN "error" ELSE "created",
                       name |-> clean, dirs |-> made.dirs]

\* what the connection to the vector database can do with the collection of
\* a delete: drop it, find none, or raise
DropOutcomes == {"dropped", "none_found", "failed"}

\* rmtree leaving the directory in place
rmtree_keeps(dirs, kb_path) == dirs

\* shutil.rmtree(kb_path)
rmtree(dirs, kb_path) == dirs \ {kb_path}

\* delete_knowledge_base that reads confirm after the drop
delete_knowledge_base_unconfirmed(collection_name, confirm, dirs, drop, rmtree_ok) ==
    IF collection_name \notin dirs
    THEN [success |-> FALSE, outcome |-> "missing", drop |-> "none", dirs |-> dirs]
    ELSE IF ~confirm
    THEN [success |-> FALSE, outcome |-> "unconfirmed", drop |-> drop, dirs |-> dirs]
    ELSE IF ~rmtree_ok
    THEN [success |-> FALSE, outcome |-> "error", drop |-> drop, dirs |-> dirs]
    ELSE [success |-> TRUE, outcome |-> "deleted", drop |-> drop,
          dirs |-> rmtree(dirs, collection_name)]

\* KnowledgeBaseManager.delete_knowledge_base: the drop is tried inside its
\* own try block, shutil.rmtree may raise into the outer one
delete_knowledge_base(collection_name, confirm, dirs, drop, rmtree_ok) ==
    IF ~confirm
    THEN [success |-> FALSE, outcome |-> "unconfirmed", drop |-> "none", dirs |-> dirs]
    ELSE IF collection_name \notin dirs
    THEN [success |-> FALSE, outcome |-> "missing", drop |-> "none", dirs |-> dirs]
    ELSE IF ~rmtree_ok
    THEN [success |-> FALSE, outcome |-> "error", drop |-> drop, dirs |-> dirs]
    ELSE [success |-> TRUE, outcome |-> "deleted", drop |-> drop,
          dirs |-> rmtree(dirs, collection_name)]

\* KnowledgeBaseManager.switch_knowledge_base: sets the environment variable;
\* the Settings object get_settings() caches is not touched
manager_switch_knowledge_base(collection_name, dirs, env, pointer) ==
    IF collection_name \notin dirs
    THEN [success |-> FALSE, environ |-> env, pointer |-> pointer]
    ELSE [success |-> TRUE, environ |-> collection_name, pointer |-> pointer]


\* one call of KnowledgeBaseManager.create_knowledge_base
CreateKnowledgeBase ==
    \E collection_name \in RawNames, vector_ok \in BOOLEAN :
        LET r == create_knowledge_base(collection_name, list_knowledge_bases,
                                       vector_ok)
        IN  /\ collections' = r.dirs
            /\ created' = IF r.success THEN created \cup {r.name} ELSE created
            /\ kb_op' = [NoOp EXCEPT !.op = "create_knowledge_base",
                                     !.name = r.name, !.success = r.success,
                                     !.outcome = r.outcome,
                                     !.input = collection_name,
                                     !.existed = clean_name(collection_name)
                                                     \in list_knowledge_bases,
                                     !.changed = <<collections, created>>'
                                                     # <<collections, created>>]
            /\ UNCHANGED <<current_collection_name, kb_manager_collection,
                           switch_status, environ, processing_log, handlerVars,
                           workflowVars, produced, streamVars, svcVars>>

\* one call of KnowledgeBaseManager.delete_knowledge_base; the log file of
\* the global manager goes with the directory it lies in; the vector
\* database and rmtree are reached by a confirmed delete of an existing name
DeleteKnowledgeBase ==
    \E collection_name \in KbNames, confirm \in BOOLEAN :
    \E drop \in (IF confirm /\ collection_name \in list_knowledge_bases
                 THEN DropOutcomes ELSE {"none_found"}),
       rmtree_ok \in (IF confirm /\ collection_name \in list_knowledge_bases
                      THEN BOOLEAN ELSE {TRUE}) :
        LET r == delete_knowledge_base(collection_name, confirm,
                                       list_knowledge_bases, drop, rmtree_ok)
        IN  /\ collections' = r.dirs
            /\ created' = created \cap r.dirs
            /\ processing_log' = IF kb_manager_collection \in r.dirs
                                 THEN processing_log ELSE <<>>
            /\ kb_op' = [NoOp EXCEPT !.op = "delete_knowledge_base",
                                     !.name = collection_name,
                                     !.confirm = confirm, !.success = r.success,
                                     !.outcome = r.outcome, !.drop = r.drop,
                                     !.existed = collection_name
                                                     \in list_knowledge_bases,
                                     !.changed =
                                         <<collections, created, processing_log>>'
                                         # <<collections, created, processing_log>>]
            /\ UNCHANGED <<current_collection_name, kb_manager_collection,
                           switch_status, environ, handlerVars, workflowVars,
                           produced, streamVars, svcVars>>

\* one call of KnowledgeBaseManager.switch_knowledge_base
SwitchKnowledgeBase ==
    \E collection_name \in KbNames :
        LET r == manager_switch_knowledge_base(collection_name,
                     list_knowledge_bases, environ, current_collection_name)
        IN  /\ environ' = r.environ
            /\ current_collection_name' = r.pointer
            /\ kb_op' = [NoOp EXCEPT !.op = "switch_knowledge_base",
                                     !.name = collection_name,
                                     !.success = r.success]
            /\ UNCHANGED <<collections, kb_manager_collection, switch_status,
                           created, processing_log, handlerVars, workflowVars,
                           produced, streamVars, svcVars>>

\* KnowledgeBaseManager(collection_name=...), as the command line builds one
\* for each of its commands
ConstructManager ==
    \E collection_name \in ManagerNames, vector_ok \in BOOLEAN :
        LET r == KnowledgeBaseManager_init(collection_name, list_knowledge_bases,
                                           vector_ok)
        IN  /\ collections' = r.dirs
            /\ kb_op' = [NoOp EXCEPT !.op = "__init__", !.name = collection_name,
                                     !.success = ~r.raised]
            /\ UNCHANGED <<current_collection_name, kb_manager_collection,
                           switch_status, environ, created, processing_log,
                           handlerVars, workflowVars, produced, streamVars, svcVars>>


(***************************************************************************)
(* KnowledgeBaseManager: ingestion and the processing log                  *)
(***************************************************************************)
\* a chunk is the length of its page_content once stripped; a file is the
\* name it was uploaded under (stem and suffix, empty when it has none),
\* whether its loader reads it, the chunks the splitter cuts it into, and
\* what the vector database answers to each batch of an add
MinContentLength == 10
batch_size == 10
supported_extensions == {".pdf", ".txt", ".md", ".docx", ".pptx", ".py"}
Files ==
    { [filename |-> <<>>, readable |-> TRUE, chunks |-> <<10>>, ok |-> <<TRUE>>],
      [filename |-> <<"a", ".exe">>, readable |-> TRUE, chunks |-> <<10>>,
       ok |-> <<TRUE>>],
      [filename |-> <<"b", ".pdf">>, readable |-> FALSE, chunks |-> <<>>,
       ok |-> <<>>],
      [filename |-> <<"c", ".txt">>, readable |-> TRUE, chunks |-> <<0, 9>>,
       ok |-> <<>>],
      [filename |-> <<"d", ".txt">>, readable |-> TRUE, chunks |-> <<9, 10>>,
       ok |-> <<TRUE>>],
      [filename |-> <<"e", ".md">>, readable |-> TRUE, chunks |-> <<10, 10>>,
       ok |-> <<FALSE>>] }

\* DocumentProcessor.is_supported_file
is_supported_file(filename) == filename[2] \in supported_extensions

\* DocumentValidator.validate_document_content
validate_document_content(page_content) ==
    ~(page_content = 0) /\ ~(page_content < MinContentLength)

\* DocumentValidator.validate_documents
validate_documents(documents) == SelectSeq(documents, validate_document_content)

\* VectorStoreManager.add_documents: every batch is tried, ok[b] tells
\* whether batch b was added; calls counts the batches sent to the store
RECURSIVE AddedCount(_, _, _)
AddedCount(total_docs, ok, b) ==
    IF (b - 1) * batch_size >= total_docs THEN 0
    ELSE (IF ok[b] THEN Min(batch_size, total_docs - (b - 1) * batch_size) ELSE 0)
         + AddedCount(total_docs, ok, b + 1)
add_documents(documents, ok) ==
    IF documents = <<>>
    THEN [success |-> FALSE, added_count |-> 0, failed_count |-> 0, calls |-> 0]
    ELSE LET total_docs == Len(documents)
             added_count == AddedCount(total_docs, ok, 1)
         IN  [success |-> (total_docs - added_count = 0),
              added_count |-> added_count,
              failed_count |-> total_docs - added_count,
              calls |-> (total_docs + batch_size - 1) \div batch_size]

\* VectorStoreManager.update_documents: one delete for the source of the
\* file, then the add
update_documents(documents, ok) ==
    LET result == add_documents(documents, ok)
    IN  [success |-> result.success, calls |-> 1 + result.calls]

\* the entries add_file, add_directory and update_file write: the error
\* entry carries "success": False, the other the vector-store result
LogEntry(operation, vector_result) ==
    [operation |-> operation, success |-> absent,
     vector_result |-> IF vector_result THEN "True" ELSE "False"]
ErrorEntry(operation) ==
    [operation |-> operation, success |-> "False", vector_result |-> absent]

\* save_processing_metadata writing the new entry alone
save_processing_metadata_overwrites(log, metadata, dir_exists) ==
    IF dir_exists THEN [raised |-> FALSE, log |-> <<metadata>>]
    ELSE [raised |-> TRUE, log |-> log]

\* KnowledgeBaseManager.save_processing_metadata: reads the log, appends the
\* entry and writes the file again; the write raises when the metadata
\* directory is gone
save_processing_metadata(log, metadata, dir_exists) ==
    IF dir_exists THEN [raised |-> FALSE, log |-> Append(log, metadata)]
    ELSE [raised |-> TRUE, log |-> log]

\* what an ingestion call leaves: raised when an exception left the method
Ingested(success, raised, saved, calls) ==
    [success |-> success, raised |-> raised, log |-> saved.log, calls |-> calls]

\* add_file that sends the chunks to the store before it validates them
add_file_unvalidated(file, log, dir_exists) ==
    IF ~file.readable
    THEN LET saved == save_processing_metadata(log, ErrorEntry("add_file"),
                                               dir_exists)
         IN  Ingested(FALSE, saved.raised, saved, 0)
    ELSE LET valid_documents == validate_documents(file.chunks)
             result == add_documents(file.chunks, <<FALSE>>)
         IN  IF valid_documents = <<>>
             THEN Ingested(FALSE, FALSE, [log |-> log], result.calls)
             ELSE LET saved == save_processing_metadata(
                                   log, LogEntry("add_file", result.success),
                                   dir_exists)
                  IN  Ingested(result.success /\ ~saved.raised, saved.raised,
                               saved, result.calls)

\* KnowledgeBaseManager.add_file: a failing save in the try block is caught
\* by the except branch, whose own save then raises out of the method
add_file(file, log, dir_exists) ==
    IF ~file.readable
    THEN LET saved == save_processing_metadata(log, ErrorEntry("add_file"),
                                               dir_exists)
         IN  Ingested(FALSE, saved.raised, saved, 0)
    ELSE LET valid_documents == validate_documents(file.chunks)
         IN  IF valid_documents = <<>>
             THEN Ingested(FALSE, FALSE, [log |-> log], 0)
             ELSE LET result == add_documents(valid_documents, file.ok)
                      saved == save_processing_metadata(
                                   log, LogEntry("add_file", result.success),
                                   dir_exists)
                  IN  Ingested(result.success /\ ~saved.raised, saved.raised,
                               saved, result.calls)

\* KnowledgeBaseManager.add_directory, the directory seen as one file whose
\* chunks are those of all its files
add_directory(directory, log, dir_exists) ==
    IF ~directory.readable
    THEN LET saved == save_processing_metadata(log, ErrorEntry("add_directory"),
                                               dir_exists)
         IN  Ingested(FALSE, saved.raised, saved, 0)
    ELSE LET valid_documents == validate_documents(directory.chunks)
         IN  IF valid_documents = <<>>
             THEN Ingested(FALSE, FALSE, [log |-> log], 0)
             ELSE LET result == add_documents(valid_documents, directory.ok)
                      saved == save_processing_metadata(
                                   log, LogEntry("add_directory", result.success),
                                   dir_exists)
                  IN  Ingested(result.success /\ ~saved.raised, saved.raised,
                               saved, result.calls)

\* KnowledgeBaseManager.update_file: its except branch returns the failure
\* and writes nothing
update_file(file, log, dir_exists) ==
    IF ~file.readable
    THEN Ingested(FALSE, FALSE, [log |-> log], 0)
    ELSE LET valid_documents == validate_documents(file.chunks)
         IN  IF valid_documents = <<>>
             THEN Ingested(FALSE, FALSE, [log |-> log], 0)
             ELSE LET result == update_documents(valid_documents, file.ok)
                      saved == save_processing_metadata(
                                   log, LogEntry("update_file", result.success),
                                   dir_exists)
                  IN  Ingested(result.success /\ ~saved.raised, FALSE, saved,
                               result.calls)


\* the files a caller hands to add_file, update_file or add_directory
IngestFiles ==
    {f \in Files : f.filename # <<>> /\ is_supported_file(f.filename)}

\* the write of an ingestion call to the global manager
IngestionOp(operation, file, r) ==
    /\ processing_log' = r.log
    /\ kb_op' = [NoOp EXCEPT !.op = operation, !.name = kb_manager_collection,
                             !.success = r.success,
                             !.outcome = IF r.raised THEN "raised" ELSE "returned",
                             !.vector_calls = r.calls,
                             !.appended = Len(r.log) - Len(processing_log),
                             !.input = <<file>>]
    /\ UNCHANGED <<collections, current_collection_name, kb_manager_collection,
                   switch_status, environ, created, handlerVars, workflowVars,
                   produced, streamVars, svcVars>>

\* knowledge_base_manager.add_file(path)
AddFile ==
    /\ Len(processing_log) < MaxLog
    /\ \E file \in IngestFiles :
          IngestionOp("add_file", file,
                      add_file(file, processing_log,
                               kb_manager_collection \in collections))

\* knowledge_base_manager.add_directory(path)
AddDirectory ==
    /\ Len(processing_log) < MaxLog
    /\ \E directory \in IngestFiles :
          IngestionOp("add_directory", directory,
                      add_directory(directory, processing_log,
                                    kb_manager_collection \in collections))

\* knowledge_base_manager.update_file(path)
UpdateFile ==
    /\ Len(processing_log) < MaxLog
    /\ \E file \in IngestFiles :
          IngestionOp("update_file", file,
                      update_file(file, processing_log,
                                  kb_manager_collection \in collections))

\* get_knowledge_base_stats: the counts it computes from the processing
\* history; an entry counts as successful by op.get("success", True)
get_knowledge_base_stats(log) ==
    [total_operations |-> Len(log),
     successful_operations |->
         Len(SelectSeq(log, LAMBDA op : IF op.success = absent THEN TRUE
                                        ELSE op.success = "True"))]

(***************************************************************************)
(* POST /upload-files: upload_files                                        *)
(***************************************************************************)
\* the loop of upload_files leaving at the first file that fails
RECURSIVE upload_loop_aborting(_, _, _)
upload_loop_aborting(files, log, dir_exists) ==
    IF files = <<>> THEN [results |-> <<>>, log |-> log, calls |-> 0]
    ELSE LET file == Head(files)
             failure == [filename |-> file.filename, success |-> FALSE]
         IN  IF file.filename = <<>> \/ ~is_supported_file(file.filename)
             THEN [results |-> <<failure>>, log |-> log, calls |-> 0]
             ELSE LET r == add_file(file, log, dir_exists)
                      rest == upload_loop_aborting(Tail(files), r.log, dir_exists)
                  IN  IF r.raised \/ ~r.success
                      THEN [results |-> <<failure>>, log |-> r.log,
                            calls |-> r.calls]
                      ELSE [results |-> <<[filename |-> file.filename,
                                           success |-> r.success]>> \o rest.results,
                            log |-> rest.log, calls |-> r.calls + rest.calls]

\* the loop of upload_files: a file without a name or of an unsupported
\* type gets a failure entry, any other goes through add_file, and what
\* add_file raises becomes a failure entry
RECURSIVE upload_loop(_, _, _)
upload_loop(files, log, dir_exists) ==
    IF files = <<>> THEN [results |-> <<>>, log |-> log, calls |-> 0]
    ELSE LET file == Head(files)
             failure == [filename |-> file.filename, success |-> FALSE]
         IN  IF file.filename = <<>> \/ ~is_supported_file(file.filename)
             THEN LET rest == upload_loop(Tail(files), log, dir_exists)
                  IN  [results |-> <<failure>> \o rest.results, log |-> rest.log,
                       calls |-> rest.calls]
             ELSE LET r == add_file(file, log, dir_exists)
                      rest == upload_loop(Tail(files), r.log, dir_exists)
                  IN  [results |-> <<IF r.raised THEN failure
                                     ELSE [filename |-> file.filename,
                                           success |-> r.success]>> \o rest.results,
                       log |-> rest.log, calls |-> r.calls + rest.calls]

\* sum(1 for r in results if r.get("success", False))
successful_files(results) ==
    Cardinality({i \in 1..Len(results) : results[i].success})

\* the handler whole: the loop, then the counts of the response body
upload_files ==
    /\ \E files \in SeqsUpTo(Files, MaxFiles) :
          /\ Len(processing_log) + Len(files) <= MaxLog
          /\ LET u == upload_loop(files, processing_log,
                                  kb_manager_collection \in collections)
                 total_files == Len(u.results)
             IN  /\ processing_log' = u.log
                 /\ kb_op' = [NoOp EXCEPT
                                 !.op = "upload_files",
                                 !.name = kb_manager_collection,
                                 !.success = TRUE,
                                 !.outcome = "returned",
                                 !.vector_calls = u.calls,
                                 !.appended = Len(u.log) - Len(processing_log),
                                 !.input = files,
                                 !.results =
                                     [total_files |-> total_files,
                                      successful_files |-> successful_files(u.results),
                                      failed_files |-> total_files
                                                       - successful_files(u.results),
                                      results |-> u.results]]
    /\ UNCHANGED <<collections, current_collection_name, kb_manager_collection,
                   switch_status, environ, created, handlerVars, workflowVars,
                   produced, streamVars, svcVars>>

(***************************************************************************)
(* POST /upload-file: upload_file                                          *)
(***************************************************************************)
NoUpload == [status |-> 0, tmp_created |-> FALSE, tmp_left |-> FALSE,
             success |-> FALSE, file |-> <<>>]

\* the handler from its first line to its response: a 400 for a missing name
\* or an unsupported type; NamedTemporaryFile(delete=False) makes the file;
\* file.read() and tmp_file.write() run inside the with block, before the
\* try whose finally unlinks the file; add_file runs inside that try
upload_file_response(file, tmp_ok, copy_ok, log, dir_exists) ==
    IF file.filename = <<>> \/ ~is_supported_file(file.filename)
    THEN [status |-> 400, tmp_created |-> FALSE, tmp_left |-> FALSE,
          success |-> FALSE, log |-> log]
    ELSE IF ~tmp_ok
    THEN [status |-> 500, tmp_created |-> FALSE, tmp_left |-> FALSE,
          success |-> FALSE, log |-> log]
    ELSE IF ~copy_ok
    THEN [status |-> 500, tmp_created |-> TRUE, tmp_left |-> TRUE,
          success |-> FALSE, log |-> log]
    ELSE LET r == add_file(file, log, dir_exists)
         IN  [status |-> IF r.raised THEN 500 ELSE 200, tmp_created |-> TRUE,
              tmp_left |-> FALSE, success |-> r.success, log |-> r.log]

\* one POST /upload-file call, whole; tmp_ok and copy_ok tell whether the
\* temporary file could be made and whether the upload could be copied to it
upload_file ==
    /\ Len(processing_log) < MaxLog
    /\ tmp_files < MaxTmp
    /\ \E file \in Files, tmp_ok \in BOOLEAN, copy_ok \in BOOLEAN :
          LET r == upload_file_response(file, tmp_ok, copy_ok, processing_log,
                                        kb_manager_collection \in collections)
          IN  /\ processing_log' = r.log
              /\ tmp_files' = tmp_files + (IF r.tmp_left THEN 1 ELSE 0)
              /\ upload' = [status |-> r.status, tmp_created |-> r.tmp_created,
                            tmp_left |-> r.tmp_left, success |-> r.success,
                            file |-> file.filename]
    /\ UNCHANGED <<collections, current_collection_name, kb_manager_collection,
                   switch_status, environ, created, kb_op, handlerVars,
                   workflowVars, produced, streamVars, vectorVars,
                   searchVars, registryVars, gatewayVars, lateVars>>

(***************************************************************************)
(* VectorStoreManager: add_documents, delete_by_metadata, update_documents *)
(***************************************************************************)
\* metadata["source"] of a document; None when the key is missing
Sources == {"a.txt", "b.txt"}
DocSources == Sources \cup {None}

\* batch_size arguments; 0 stands for the falsy ones, None and 0
BatchSizeArgs == 0..MaxBatch

\* the documents of call number call whose sources are srcs, in order
Documents(srcs, call) ==
    [k \in 1..Len(srcs) |-> [source |-> srcs[k], call |-> call, pos |-> k]]

NoCall == [op |-> None, pc |-> "idle", documents |-> <<>>, batch_size |-> 0,
           i |-> 0, added_count |-> 0, failed_count |-> 0,
           batch_results |-> <<>>, sources |-> {}, pending |-> {},
           log |-> <<>>, summary |-> None]

\* the strategy shared by the add, search and delete wrappers: the client's
\* synchronous method in the thread pool, and its asynchronous method, when
\* it has one, only after the synchronous one raised
prefer_sync(sync_ok, has_async, async_ok) ==
    sync_ok \/ (has_async /\ async_ok)

\* what the store keeps of a document: its source and the call that added it
chunk(document) == [source |-> document.source, call |-> document.call]

\* VectorStoreManager._add_batch_isolated: TRUE when the batch was added
add_batch_isolated(sync_ok, has_async, async_ok) ==
    prefer_sync(sync_ok, has_async, async_ok)

\* VectorStoreManager.delete_by_metadata: the success of its result
delete_by_metadata(sync_ok, has_async, async_ok) ==
    [success |-> prefer_sync(sync_ok, has_async, async_ok)]

\* add_documents up to its loop: batch_size = batch_size or self.batch_size
add_documents_enter(v, batch_size_arg) ==
    [v EXCEPT !.batch_size = IF batch_size_arg = 0 THEN batch_size
                             ELSE batch_size_arg,
              !.i = 0, !.added_count = 0, !.failed_count = 0,
              !.batch_results = <<>>, !.pc = "batches"]

\* documents[i:i + batch_size]
next_batch(v) ==
    SubSeq(v.documents, v.i + 1, Min(v.i + v.batch_size, Len(v.documents)))

\* the loop of add_documents leaving at the first batch that fails
add_documents_batch_aborting(v, success) ==
    LET batch == next_batch(v)
        batch_num == (v.i \div v.batch_size) + 1
    IN  [v EXCEPT !.i = IF success THEN v.i + v.batch_size
                        ELSE Len(v.documents),
                  !.added_count = IF success THEN @ + Len(batch) ELSE @,
                  !.failed_count = IF success THEN @ ELSE @ + Len(batch),
                  !.batch_results = Append(@, [batch |-> batch_num,
                                               success |-> success,
                                               count |-> IF success THEN Len(batch)
                                                         ELSE 0]),
                  !.log = Append(@, [kind |-> "add", batch |-> batch])]

\* one turn of the loop of add_documents: the batch is sent, counted as
\* added or as failed, and the loop goes on to the next one
add_documents_batch(v, success) ==
    LET batch == next_batch(v)
        batch_num == (v.i \div v.batch_size) + 1
    IN  [v EXCEPT !.i = v.i + v.batch_size,
                  !.added_count = IF success THEN @ + Len(batch) ELSE @,
                  !.failed_count = IF success THEN @ ELSE @ + Len(batch),
                  !.batch_results = Append(@, [batch |-> batch_num,
                                               success |-> success,
                                               count |-> IF success THEN Len(batch)
                                                         ELSE 0]),
                  !.log = Append(@, [kind |-> "add", batch |-> batch])]

\* the summary add_documents returns after its loop
add_documents_summary(v) ==
    [success |-> v.failed_count = 0, total_documents |-> Len(v.documents),
     added_count |-> v.added_count, failed_count |-> v.failed_count,
     batch_results |-> v.batch_results]

\* what add_documents returns for an empty list
NoDocuments == [success |-> FALSE, message |-> "No documents to add"]

\* what update_documents returns for the result of its add_documents
update_documents_result(v, result) ==
    IF result.success
    THEN [success |-> TRUE, updated_sources |-> v.sources, add_result |-> result]
    ELSE [success |-> FALSE, add_result |-> result]

\* the distinct truthy sources of the documents
sources_of(documents) ==
    {documents[k].source : k \in 1..Len(documents)} \ {None}

\* a call of add_documents or update_documents begins
VectorCall(op, batch_size_arg) ==
    /\ vsm.pc \in {"idle", "done"}
    /\ vs_calls < MaxCalls
    /\ \E srcs \in SeqsUpTo(DocSources, MaxDocs) :
          LET documents == Documents(srcs, vs_calls + 1)
              v == [NoCall EXCEPT !.op = op, !.documents = documents,
                                  !.sources = IF op = "update_documents"
                                              THEN sources_of(documents) ELSE {},
                                  !.pending = IF op = "update_documents"
                                              THEN sources_of(documents) ELSE {}]
          IN  vsm' = IF v.pending # {} THEN [v EXCEPT !.pc = "deletes"]
                     ELSE IF documents = <<>>
                     THEN [v EXCEPT !.pc = "done",
                                    !.summary = IF op = "update_documents"
                                                THEN update_documents_result(v, NoDocuments)
                                                ELSE NoDocuments]
                     ELSE add_documents_enter(v, batch_size_arg)
    /\ vs_calls' = vs_calls + 1
    /\ UNCHANGED <<store, appVars, uploadVars, searchVars, registryVars, gatewayVars, lateVars>>

\* vector_manager.add_documents(documents, batch_size)
add_documents_call ==
    \E batch_size_arg \in BatchSizeArgs : VectorCall("add_documents", batch_size_arg)

\* vector_manager.update_documents(documents), which passes no batch_size on
update_documents_call == VectorCall("update_documents", 0)

\* update_documents awaits delete_by_metadata for one more source of the
\* set, in the order the set hands them out, and ignores what it returns
update_documents_delete ==
    /\ vsm.pc = "deletes"
    /\ \E source \in vsm.pending, sync_ok \in BOOLEAN, has_async \in BOOLEAN,
          async_ok \in BOOLEAN :
          LET result == delete_by_metadata(sync_ok, has_async, async_ok)
              v == [vsm EXCEPT !.pending = @ \ {source},
                               !.log = Append(@, [kind |-> "delete",
                                                  source |-> source])]
          IN  /\ store' = IF result.success
                          THEN {c \in store : c.source # source} ELSE store
              /\ vsm' = IF v.pending = {} THEN add_documents_enter(v, 0) ELSE v
    /\ UNCHANGED <<vs_calls, appVars, uploadVars, searchVars, registryVars, gatewayVars, lateVars>>

\* add_documents awaits _add_batch_isolated for the next batch
add_documents_batch_step ==
    /\ vsm.pc = "batches"
    /\ vsm.i < Len(vsm.documents)
    /\ \E sync_ok \in BOOLEAN, has_async \in BOOLEAN, async_ok \in BOOLEAN :
          LET success == add_batch_isolated(sync_ok, has_async, async_ok)
              batch == next_batch(vsm)
          IN  /\ store' = IF success
                          THEN store \cup {chunk(batch[k]) : k \in 1..Len(batch)}
                          ELSE store
              /\ vsm' = add_documents_batch(vsm, success)
    /\ UNCHANGED <<vs_calls, appVars, uploadVars, searchVars, registryVars, gatewayVars, lateVars>>

\* the loop is over: add_documents returns its summary, and update_documents
\* the result it makes of it
vector_call_returns ==
    /\ vsm.pc = "batches"
    /\ vsm.i >= Len(vsm.documents)
    /\ LET summary == add_documents_summary(vsm)
       IN  vsm' = [vsm EXCEPT !.pc = "done",
                              !.summary = IF vsm.op = "update_documents"
                                          THEN update_documents_result(vsm, summary)
                                          ELSE summary]
    /\ UNCHANGED <<store, vs_calls, appVars, uploadVars, searchVars, registryVars,
                   gatewayVars, lateVars>>

(***************************************************************************)
(* WebSearchManager.search and its two engines                             *)
(***************************************************************************)
PreferredEngines == {"tavily", "duckduckgo"}
HttpStatuses == {200, 401, 500}

\* n results of one engine, in the order the engine gave them
Results(source, n) == [k \in 1..n |-> [source |-> source, rank |-> k]]

NoSearch == [preferred_engine |-> None, configured |-> FALSE, max_results |-> 0,
             queried |-> <<>>, primary |-> None, backup |-> None,
             raised |-> FALSE, results |-> <<>>]

\* TavilySearchEngine.search: the session is fetched before the try block,
\* so a failure there is raised; a status other than 200 and any error of
\* the exchange end in the empty list; otherwise the parsed items
TavilySearchEngine_search(session_ok, post_ok, status, items) ==
    IF ~session_ok THEN [raised |-> TRUE, results |-> <<>>]
    ELSE IF ~post_ok \/ status # 200 THEN [raised |-> FALSE, results |-> <<>>]
    ELSE [raised |-> FALSE, results |-> Results("tavily", items)]

\* what awaiting duckduckgo_engine.search can give: the one result of the
\* engine as written, or, of an engine that fails, nothing or an exception
DuckDuckGoOutcomes ==
    {[raised |-> TRUE, results |-> <<>>]}
    \cup {[raised |-> FALSE, results |-> Results("duckduckgo", n)] : n \in 0..1}

\* the search asking the backup engine whatever the primary returned
WebSearchManager_search_both(preferred_engine, tavily_engine, primary, backup) ==
    LET tried == preferred_engine = "tavily" /\ tavily_engine
        first == IF tried THEN <<"tavily">> ELSE <<>>
    IN  IF tried /\ ~primary.raised /\ primary.results # <<>>
        THEN [queried |-> first \o <<"duckduckgo">>, raised |-> FALSE,
              results |-> primary.results]
        ELSE IF ~backup.raised
        THEN [queried |-> first \o <<"duckduckgo">>, raised |-> FALSE,
              results |-> backup.results]
        ELSE [queried |-> first \o <<"duckduckgo">>, raised |-> FALSE,
              results |-> <<>>]

\* WebSearchManager.search: tavily_engine tells whether the manager was
\* built with an API key; queried lists the engines asked, in order
WebSearchManager_search(preferred_engine, tavily_engine, primary, backup) ==
    LET tried == preferred_engine = "tavily" /\ tavily_engine
        first == IF tried THEN <<"tavily">> ELSE <<>>
    IN  IF tried /\ ~primary.raised /\ primary.results # <<>>
        THEN [queried |-> first, raised |-> FALSE, results |-> primary.results]
        ELSE IF ~backup.raised
        THEN [queried |-> first \o <<"duckduckgo">>, raised |-> FALSE,
              results |-> backup.results]
        ELSE [queried |-> first \o <<"duckduckgo">>, raised |-> FALSE,
              results |-> <<>>]

\* one call of web_search_manager.search
web_search ==
    /\ \E preferred_engine \in PreferredEngines, tavily_engine \in BOOLEAN,
          session_ok \in BOOLEAN, post_ok \in BOOLEAN, status \in HttpStatuses,
          max_results \in 1..MaxWeb, backup \in DuckDuckGoOutcomes :
          \E items \in 0..max_results :
          LET primary == TavilySearchEngine_search(session_ok, post_ok, status,
                                                   items)
              r == WebSearchManager_search(preferred_engine, tavily_engine,
                                           primary, backup)
          IN  web' = [preferred_engine |-> preferred_engine,
                      configured |-> tavily_engine,
                      max_results |-> max_results,
                      queried |-> r.queried, primary |-> primary,
                      backup |-> backup, raised |-> r.raised,
                      results |-> r.results]
    /\ UNCHANGED <<rr, appVars, uploadVars, vectorVars, registryVars, gatewayVars, lateVars>>

(***************************************************************************)
(* DashScopeRerank.rerank                                                  *)
(***************************************************************************)
\* self.top_n of a client built with the default
DefaultTopN == 10

Passages == {"p", "q"}
VendorOutcomes == {"ok", "error_status", "raised"}

NoRerank == [called |-> FALSE, documents |-> <<>>, top_n_given |-> FALSE,
             top_n |-> 0, outcome |-> "ok", results |-> <<>>]

\* documents[:top_n], top_n not negative
slice_to(documents, top_n) ==
    SubSeq(documents, 1, Min(top_n, Len(documents)))

\* sequences of k distinct values of S
RECURSIVE Orders(_, _)
Orders(S, k) ==
    IF k = 0 THEN {<<>>}
    ELSE UNION {{<<x>> \o o : o \in Orders(S \ {x}, k - 1)} : x \in S}

\* the original documents with every document kept, whatever top_n is
original_order_untruncated(documents, top_n) ==
    [k \in 1..Len(documents) |->
        [index |-> k - 1, document |-> documents[k],
         relevance_score |-> 10 - (k - 1)]]

\* the list both failure branches of rerank return: enumerate(documents[:top_n])
\* with index i and score 1.0 - (i * 0.1), the score counted in tenths
original_order(documents, top_n) ==
    LET kept == slice_to(documents, top_n)
    IN  [k \in 1..Len(kept) |->
            [index |-> k - 1, document |-> kept[k],
             relevance_score |-> 10 - (k - 1)]]

\* the results of a call the vendor answered: one item for each index of
\* order, the order of the vendor, with the vendor's scores, in tenths
vendor_results(documents, order) ==
    [k \in 1..Len(order) |->
        [index |-> order[k], document |-> documents[order[k] + 1],
         relevance_score |-> 10 - 2 * k]]

\* DashScopeRerank.rerank
rerank(documents, top_n_given, top_n_arg, outcome, order) ==
    LET top_n == IF top_n_given THEN top_n_arg ELSE DefaultTopN
    IN  IF outcome = "ok" THEN vendor_results(documents, order)
        ELSE original_order(documents, top_n)

\* one call of rerank(query, documents, top_n)
rerank_call ==
    /\ \E documents \in SeqsUpTo(Passages, MaxRerank), top_n_given \in BOOLEAN,
          top_n_arg \in 0..MaxTopN, outcome \in VendorOutcomes :
          LET asked == Min(IF top_n_given THEN top_n_arg ELSE DefaultTopN,
                           Len(documents))
          IN  \E order \in (IF outcome = "ok"
                            THEN Orders(0..(Len(documents) - 1), asked)
                            ELSE {<<>>}) :
                 rr' = [called |-> TRUE, documents |-> documents,
                        top_n_given |-> top_n_given,
                        top_n |-> IF top_n_given THEN top_n_arg ELSE 0,
                        outcome |-> outcome,
                        results |-> rerank(documents, top_n_given, top_n_arg,
                                           outcome, order)]
    /\ UNCHANGED <<web, appVars, uploadVars, vectorVars, registryVars, gatewayVars, lateVars>>

(***************************************************************************)
(* ModelConfig: the caching factories                                      *)
(***************************************************************************)
Kinds == {"chat", "embedding", "reranking", "vector_store"}

\* the names a caller may pass, "unknown" being in no section of the catalog
\* and None standing for the argument left out
RequestNames == {"primary", "fallback", "custom", "unknown"}

\* self._config: the names of each section of the catalog
catalog ==
    [chat |-> {"primary", "fallback", "custom"},
     embedding |-> {"primary", "fallback"},
     reranking |-> {"primary"},
     vector_store |-> {"primary"}]

\* self._config["default_models"]
default_models ==
    [chat |-> "primary", embedding |-> "primary", reranking |-> "primary",
     vector_store |-> "primary"]

\* store_config["collection_name"] of the stores of the catalog
store_collection == [name \in RequestNames |-> "knowledge_base"]

\* self._config["model_switching"]["fallback_chain"]
fallback_chain ==
    [chat |-> <<"primary", "fallback">>, embedding |-> <<"primary", "fallback">>,
     reranking |-> <<>>]

\* the four caches, holding for a name the serial number of the client kept
\* for it (0: none); built counts the clients made for the name, and
\* returned collects the serial numbers handed out for it
EmptyRegistry ==
    [cache |-> [kind \in Kinds |-> [name \in RequestNames |-> 0]],
     built |-> [kind \in Kinds |-> [name \in RequestNames |-> 0]],
     returned |-> [kind \in Kinds |-> [name \in RequestNames |-> {}]]]

NoRegOp == [op |-> None, kind |-> None, name |-> None, enabled |-> FALSE,
            raised |-> FALSE, instance |-> None, serial |-> 0,
            attempts |-> <<>>, collection |-> None]

\* a factory that builds a client at every call and keeps none
get_model_uncached(reg, kind, model_name, ok) ==
    LET name == IF model_name = None THEN default_models[kind] ELSE model_name
    IN  IF reg.cache[kind][name] # 0
        THEN [reg |-> [reg EXCEPT !.returned[kind][name] =
                                      @ \cup {reg.cache[kind][name]}],
              raised |-> FALSE, instance |-> name,
              serial |-> reg.cache[kind][name]]
        ELSE IF name \notin catalog[kind] \/ ~ok
        THEN [reg |-> reg, raised |-> TRUE, instance |-> None, serial |-> 0]
        ELSE LET serial == reg.built[kind][name] + 1
             IN  [reg |-> [reg EXCEPT !.built[kind][name] = serial,
                                      !.returned[kind][name] = @ \cup {serial}],
                  raised |-> FALSE, instance |-> name, serial |-> serial]

\* get_chat_model, get_embedding_model and get_reranking_model: the default
\* name for None, the cached client when there is one, ValueError for a name
\* the catalog lacks or a provider it does not support, and otherwise a new
\* client, kept under the name; ok tells whether the client could be built
get_model(reg, kind, model_name, ok) ==
    LET name == IF model_name = None THEN default_models[kind] ELSE model_name
    IN  IF reg.cache[kind][name] # 0
        THEN [reg |-> [reg EXCEPT !.returned[kind][name] =
                                      @ \cup {reg.cache[kind][name]}],
              raised |-> FALSE, instance |-> name,
              serial |-> reg.cache[kind][name]]
        ELSE IF name \notin catalog[kind] \/ ~ok
        THEN [reg |-> reg, raised |-> TRUE, instance |-> None, serial |-> 0]
        ELSE LET serial == reg.built[kind][name] + 1
             IN  [reg |-> [reg EXCEPT !.cache[kind][name] = serial,
                                      !.built[kind][name] = serial,
                                      !.returned[kind][name] = @ \cup {serial}],
                  raised |-> FALSE, instance |-> name, serial |-> serial]

\* get_vector_store(store_name): as the others, with the default embedding
\* model fetched before the store is built; the store is bound to the
\* collection its catalog entry names
get_vector_store(reg, store_name, embedding_ok, ok) ==
    LET name == IF store_name = None THEN default_models["vector_store"]
                ELSE store_name
    IN  IF reg.cache["vector_store"][name] # 0 \/ name \notin catalog["vector_store"]
        THEN get_model(reg, "vector_store", store_name, ok)
        ELSE LET embedding_model == get_model(reg, "embedding", None, embedding_ok)
             IN  IF embedding_model.raised
                 THEN [reg |-> reg, raised |-> TRUE, instance |-> None,
                       serial |-> 0]
                 ELSE get_model(embedding_model.reg, "vector_store", store_name, ok)

\* VectorStoreManager(collection_name=...): its call
\* model_config.get_vector_store(collection_name=collection_name) names a
\* parameter get_vector_store does not have, which is a TypeError
VectorStoreManager_init(reg, collection_name) ==
    [reg |-> reg, raised |-> TRUE, instance |-> None, serial |-> 0]

\* the room left for one more client of every name
MayBuild ==
    \A kind \in Kinds, name \in RequestNames : registry.built[kind][name] < MaxBuilt

\* what a factory call leaves behind
RegistryOp(op, kind, model_name, r, collection) ==
    /\ registry' = r.reg
    /\ reg_op' = [NoRegOp EXCEPT !.op = op, !.kind = kind, !.name = model_name,
                                 !.raised = r.raised, !.instance = r.instance,
                                 !.serial = r.serial, !.collection = collection]

\* model_config.get_chat_model(name), get_embedding_model(name) or
\* get_reranking_model(name)
get_model_call ==
    /\ MayBuild
    /\ \E kind \in Kinds \ {"vector_store"},
          model_name \in RequestNames \cup {None}, ok \in BOOLEAN :
          RegistryOp("get_model", kind, model_name,
                     get_model(registry, kind, model_name, ok), None)
    /\ UNCHANGED <<appVars, uploadVars, vectorVars, searchVars, gatewayVars, lateVars>>

\* model_config.get_vector_store(store_name)
get_vector_store_call ==
    /\ MayBuild
    /\ \E store_name \in RequestNames \cup {None}, embedding_ok \in BOOLEAN,
          ok \in BOOLEAN :
          LET r == get_vector_store(registry, store_name, embedding_ok, ok)
          IN  RegistryOp("get_vector_store", "vector_store", store_name, r,
                         IF r.raised THEN None ELSE store_collection[r.instance])
    /\ UNCHANGED <<appVars, uploadVars, vectorVars, searchVars, gatewayVars, lateVars>>

\* VectorStoreManager(collection_name=collection_name)
vector_store_manager_call ==
    /\ \E collection_name \in CollectionNames :
          LET r == VectorStoreManager_init(registry, collection_name)
          IN  RegistryOp("VectorStoreManager", "vector_store", collection_name, r,
                         IF r.raised THEN None ELSE store_collection[r.instance])
    /\ UNCHANGED <<appVars, uploadVars, vectorVars, searchVars, gatewayVars, lateVars>>

(***************************************************************************)
(* ModelConfig.get_model_with_fallback                                     *)
(***************************************************************************)
FallbackKinds == {"chat", "embedding", "reranking"}

\* the chain the loop walks: the caller's name is put in front of the
\* declared chain only when the declared chain does not hold it
chain_for(model_type, model_name) ==
    IF model_name # None
       /\ \A k \in 1..Len(fallback_chain[model_type]) :
             fallback_chain[model_type][k] # model_name
    THEN <<model_name>> \o fallback_chain[model_type]
    ELSE fallback_chain[model_type]

\* the loop over the chain: the first factory call that returns ends it, one
\* that raises is passed over, and the end of the chain raises ValueError;
\* oks tells for every name whether its client can be built
RECURSIVE try_chain(_, _, _, _)
try_chain(reg, model_type, chain, oks) ==
    IF chain = <<>>
    THEN [reg |-> reg, raised |-> TRUE, instance |-> None, serial |-> 0,
          attempts |-> <<>>]
    ELSE LET r == get_model(reg, model_type, Head(chain), oks[Head(chain)])
             attempt == [name |-> Head(chain), failed |-> r.raised]
         IN  IF ~r.raised
             THEN [reg |-> r.reg, raised |-> FALSE, instance |-> r.instance,
                   serial |-> r.serial, attempts |-> <<attempt>>]
             ELSE LET rest == try_chain(reg, model_type, Tail(chain), oks)
                  IN  [rest EXCEPT !.attempts = <<attempt>> \o @]

\* get_model_with_fallback: with model switching disabled, the factory of
\* the type for the name as given; enabled, the loop over the chain
get_model_with_fallback(reg, enabled, model_type, model_name, oks) ==
    IF ~enabled
    THEN LET name == IF model_name = None THEN default_models[model_type]
                     ELSE model_name
             r == get_model(reg, model_type, model_name, oks[name])
         IN  [reg |-> r.reg, raised |-> r.raised, instance |-> r.instance,
              serial |-> r.serial, attempts |-> <<>>]
    ELSE try_chain(reg, model_type, chain_for(model_type, model_name), oks)

\* model_config.get_model_with_fallback(model_type, model_name)
get_model_with_fallback_call ==
    /\ MayBuild
    /\ \E enabled \in BOOLEAN, model_type \in FallbackKinds,
          model_name \in RequestNames \cup {None},
          oks \in [RequestNames -> BOOLEAN] :
          LET r == get_model_with_fallback(registry, enabled, model_type,
                                           model_name, oks)
          IN  /\ registry' = r.reg
              /\ reg_op' = [NoRegOp EXCEPT !.op = "get_model_with_fallback",
                                           !.kind = model_type,
                                           !.name = model_name,
                                           !.enabled = enabled,
                                           !.raised = r.raised,
                                           !.instance = r.instance,
                                           !.serial = r.serial,
                                           !.attempts = r.attempts]
    /\ UNCHANGED <<appVars, uploadVars, vectorVars, searchVars, gatewayVars, lateVars>>

(***************************************************************************)
(* app/main.py: the middleware around every route                          *)
(***************************************************************************)
\* what a route does with a request: it returns, it raises HTTPException,
\* which the router's own exception layer turns into a response, or it
\* raises another exception
RouteOutcomes == {"returns", "http_exception", "raises"}

NoHttpResponse ==
    [request |-> 0, status_code |-> 0, error |-> None, headers |-> {},
     init_attempted |-> FALSE, init_raised |-> FALSE, route_raised |-> FALSE]

\* the first half of initialize_models: the three default objects, in the
\* order chat model, embedding model, vector store; the first factory that
\* raises ends it, with what the factories before it put in the caches
init_default_models(reg, chat_ok, embedding_ok, store_ok) ==
    LET chat_model == get_model(reg, "chat", None, chat_ok)
        embedding_model == get_model(chat_model.reg, "embedding", None,
                                     embedding_ok)
        vector_store == get_vector_store(embedding_model.reg, None,
                                         embedding_ok, store_ok)
    IN  IF chat_model.raised THEN [reg |-> reg, raised |-> TRUE]
        ELSE IF embedding_model.raised
        THEN [reg |-> chat_model.reg, raised |-> TRUE]
        ELSE IF vector_store.raised
        THEN [reg |-> embedding_model.reg, raised |-> TRUE]
        ELSE [reg |-> vector_store.reg, raised |-> FALSE]

\* the router with its exception layer, as call_next of the timing
\* middleware sees it: a response, or the exception of the route
route(outcome) ==
    IF outcome = "returns"
    THEN [raised |-> FALSE, status_code |-> 200, error |-> None, headers |-> {}]
    ELSE IF outcome = "http_exception"
    THEN [raised |-> FALSE, status_code |-> 404, error |-> "detail",
          headers |-> {}]
    ELSE [raised |-> TRUE, status_code |-> 0, error |-> None, headers |-> {}]

\* add_process_time_header: the header is set on the response call_next
\* returned; an exception of call_next passes through
add_process_time_header(inner) ==
    IF inner.raised THEN inner
    ELSE [inner EXCEPT !.headers = @ \cup {"X-Process-Time"}]

\* the 500 response of the except branch of initialize_models
InitFailed ==
    [raised |-> FALSE, status_code |-> 500,
     error |-> "Model initialization failed", headers |-> {}]

\* initialize_models, the outermost of the two, registered last: it
\* initialises when app.state has no models_initialized, sets the attribute
\* after the three factories returned, calls the timing middleware, and
\* answers any exception of either step with its own 500 response
initialize_models(st, reg, chat_ok, embedding_ok, store_ok, outcome) ==
    LET attempted == ~st.models_initialized
        init == IF attempted
                THEN init_default_models(reg, chat_ok, embedding_ok, store_ok)
                ELSE [reg |-> reg, raised |-> FALSE]
        inner == add_process_time_header(route(outcome))
    IN  [attempted |-> attempted,
         init_raised |-> init.raised,
         route_raised |-> ~init.raised /\ inner.raised,
         reg |-> init.reg,
         state |-> IF attempted /\ ~init.raised
                   THEN [st EXCEPT !.models_initialized = TRUE] ELSE st,
         response |-> IF init.raised \/ inner.raised THEN InitFailed ELSE inner]

\* one request, from the outermost middleware to the response
http_request ==
    /\ served < MaxRequests
    /\ \E chat_ok \in BOOLEAN, embedding_ok \in BOOLEAN, store_ok \in BOOLEAN,
          outcome \in RouteOutcomes :
          LET r == initialize_models(app_state, registry, chat_ok, embedding_ok,
                                     store_ok, outcome)
          IN  /\ app_state' = r.state
              /\ registry' = r.reg
              /\ served' = served + 1
              /\ init_attempts' = init_attempts + (IF r.attempted THEN 1 ELSE 0)
              /\ http_response' = [request |-> served + 1,
                                   status_code |-> r.response.status_code,
                                   error |-> r.response.error,
                                   headers |-> r.response.headers,
                                   init_attempted |-> r.attempted,
                                   init_raised |-> r.init_raised,
                                   route_raised |-> r.route_raised]
    /\ UNCHANGED <<reg_op, appVars, uploadVars, vectorVars, searchVars,
                   lateVars>>

(***************************************************************************)
(* PromptManager: built-in and custom prompt templates                     *)
(***************************************************************************)
\* names a caller may use: two of the built-in templates and one of no
\* built-in template
PromptNames == {"rag_qa", "web_only", "my_prompt"}
TemplateTexts == {"t1", "t2"}

\* a PromptTemplate, by the attributes the operations read and write
PromptTemplate(name, template) == [name |-> name, template |-> template]

\* _load_built_in_prompts: the dict of the templates defined in the code
BuiltInPrompts ==
    [name \in {"rag_qa", "web_only"} |-> PromptTemplate(name, "built-in")]

NoPromptOp == [op |-> None, name |-> None, success |-> FALSE]

\* d[key] = value and del d[key] on a dict
dict_set(d, key, value) ==
    [k \in DOMAIN d \cup {key} |-> IF k = key THEN value ELSE d[k]]
dict_del(d, key) == [k \in DOMAIN d \ {key} |-> d[k]]

\* get_prompt: the Optional result as a set of at most one template
get_prompt(built_in, custom, name, prefer_custom) ==
    IF prefer_custom /\ name \in DOMAIN custom THEN {custom[name]}
    ELSE IF name \in DOMAIN built_in THEN {built_in[name]}
    ELSE IF name \in DOMAIN custom THEN {custom[name]}
    ELSE {}

\* add_custom_prompt: the template is stored, then the file is written
add_custom_prompt(built_in, custom, prompt, save_ok) ==
    [built_in |-> built_in, custom |-> dict_set(custom, prompt.name, prompt),
     success |-> save_ok]

\* an update that writes to the built-in template when there is no custom
\* template of the name
update_custom_prompt_any(built_in, custom, name, template, save_ok) ==
    IF name \in DOMAIN custom
    THEN [built_in |-> built_in,
          custom |-> dict_set(custom, name, [custom[name] EXCEPT !.template = template]),
          success |-> save_ok]
    ELSE IF name \in DOMAIN built_in
    THEN [built_in |-> dict_set(built_in, name,
                                [built_in[name] EXCEPT !.template = template]),
          custom |-> custom, success |-> save_ok]
    ELSE [built_in |-> built_in, custom |-> custom, success |-> FALSE]

\* update_custom_prompt(name, template=...): False for a name without custom
\* template; otherwise the attribute of the stored template is set and the
\* file written
update_custom_prompt(built_in, custom, name, template, save_ok) ==
    IF name \notin DOMAIN custom
    THEN [built_in |-> built_in, custom |-> custom, success |-> FALSE]
    ELSE [built_in |-> built_in,
          custom |-> dict_set(custom, name, [custom[name] EXCEPT !.template = template]),
          success |-> save_ok]

\* delete_custom_prompt
delete_custom_prompt(built_in, custom, name, save_ok) ==
    IF name \in DOMAIN custom
    THEN [built_in |-> built_in, custom |-> dict_del(custom, name),
          success |-> save_ok]
    ELSE [built_in |-> built_in, custom |-> custom, success |-> FALSE]

\* what an operation leaves behind
PromptOp(op, name, r) ==
    /\ built_in_prompts' = r.built_in
    /\ custom_prompts' = r.custom
    /\ prompt_op' = [op |-> op, name |-> name, success |-> r.success]
    /\ UNCHANGED promptFrame

\* POST /prompts: a new PromptTemplate of the request is added
AddCustomPrompt ==
    \E name \in PromptNames, template \in TemplateTexts, save_ok \in BOOLEAN :
        PromptOp("add_custom_prompt", name,
                 add_custom_prompt(built_in_prompts, custom_prompts,
                                   PromptTemplate(name, template), save_ok))

UpdateCustomPrompt ==
    \E name \in PromptNames, template \in TemplateTexts, save_ok \in BOOLEAN :
        PromptOp("update_custom_prompt", name,
                 update_custom_prompt(built_in_prompts, custom_prompts, name,
                                      template, save_ok))

DeleteCustomPrompt ==
    \E name \in PromptNames, save_ok \in BOOLEAN :
        PromptOp("delete_custom_prompt", name,
                 delete_custom_prompt(built_in_prompts, custom_prompts, name,
                                      save_ok))

(***************************************************************************)
(* POST /chat: several requests on one event loop                          *)
(***************************************************************************)
ChatTasks == 1..MaxTasks

\* the locals of one call of chat_with_assistant
IdleTask == [pc |-> "idle", collection_name |-> None,
             original_collection |-> UNBOUND, status |-> 0]

\* chat_with_assistant from its entry to "await rag_workflow.run(...)": no
\* await comes before, so the event loop runs this part whole
chat_task_enters(i) ==
    /\ chat_tasks[i].pc = "idle"
    /\ pointer_at_start' = IF \A j \in ChatTasks : chat_tasks[j].pc = "idle"
                           THEN current_collection_name
                           ELSE pointer_at_start
    /\ \E collection_name \in CollectionNames \cup {None} :
          IF collection_name # None /\ collection_name \notin list_knowledge_bases
          THEN LET handled == chat_except(collection_name, UNBOUND,
                                          current_collection_name)
               IN  /\ current_collection_name' = handled.pointer
                   /\ chat_tasks' = [chat_tasks EXCEPT ![i] =
                          [pc |-> "done", collection_name |-> collection_name,
                           original_collection |-> UNBOUND,
                           status |-> handled.status]]
          ELSE /\ current_collection_name' = IF collection_name # None
                                             THEN collection_name
                                             ELSE current_collection_name
               /\ chat_tasks' = [chat_tasks EXCEPT ![i] =
                      [pc |-> "await_run", collection_name |-> collection_name,
                       original_collection |->
                           IF collection_name # None
                           THEN current_collection_name ELSE UNBOUND,
                       status |-> 0]]
    /\ UNCHANGED concFrame

\* the rest of the handler once rag_workflow.run returned: the event loop
\* resumes the suspended requests in any order
chat_task_returns(i) ==
    /\ chat_tasks[i].pc = "await_run"
    /\ current_collection_name' = IF chat_tasks[i].collection_name # None
                                  THEN chat_tasks[i].original_collection
                                  ELSE current_collection_name
    /\ chat_tasks' = [chat_tasks EXCEPT ![i].pc = "done", ![i].status = 200]
    /\ UNCHANGED <<pointer_at_start, concFrame>>

\* the except branch once rag_workflow.run raised
chat_task_raises(i) ==
    /\ chat_tasks[i].pc = "await_run"
    /\ LET handled == chat_except(chat_tasks[i].collection_name,
                                  chat_tasks[i].original_collection,
                                  current_collection_name)
       IN  /\ current_collection_name' = handled.pointer
           /\ chat_tasks' = [chat_tasks EXCEPT ![i].pc = "done",
                                               ![i].status = handled.status]
    /\ UNCHANGED <<pointer_at_start, concFrame>>

(***************************************************************************)
(* VectorStoreManager: the wrappers of the client's add, search and delete *)
(***************************************************************************)
ClientOps == {"_add_batch_isolated", "search_similar", "search_with_scores",
              "delete_by_metadata"}

\* what the client's search returns for a query: up to MaxHits documents
Hits(n) == [j \in 1..n |-> [hit |-> j]]

NoClientCall == [op |-> None, pc |-> "idle", filter_metadata |-> FALSE,
                 has_async |-> FALSE,
                 attempts |-> <<>>, sync_raised |-> FALSE,
                 async_raised |-> FALSE, raised |-> FALSE, ok |-> FALSE,
                 docs |-> <<>>]

\* the value a wrapper returns when an attempt succeeded: True, the documents
\* ("docs if docs else []"), or the success record
returned_ok(c, docs) ==
    [c EXCEPT !.pc = "returned", !.ok = TRUE,
              !.docs = IF c.op \in {"search_similar", "search_with_scores"}
                       THEN docs ELSE <<>>]

\* the value a wrapper returns when no attempt succeeded: False, [], or the
\* failure record
returned_failed(c) == [c EXCEPT !.pc = "returned", !.ok = FALSE, !.docs = <<>>]

\* the wrapper up to "await run_in_thread_pool(<synchronous method>, ...)"
wrapper_enter(op, filter_metadata, has_async) ==
    [NoClientCall EXCEPT !.op = op, !.pc = "sync", !.has_async = has_async,
                         !.filter_metadata = filter_metadata,
                         !.attempts = <<"sync">>]

\* a wrapper that goes on to the asynchronous method whatever the synchronous
\* one did
after_sync_always_async(c, sync_ok, docs) ==
    IF c.has_async
    THEN [c EXCEPT !.pc = "async", !.sync_raised = ~sync_ok,
                   !.attempts = Append(@, "async")]
    ELSE IF sync_ok THEN returned_ok(c, docs)
    ELSE returned_failed([c EXCEPT !.sync_raised = TRUE])

\* the wrapper once the synchronous attempt ended: the value is returned, or,
\* in "except Exception as sync_e", the asynchronous method is awaited when
\* hasattr finds it and the failure value returned when not
after_sync(c, sync_ok, docs) ==
    IF sync_ok THEN returned_ok(c, docs)
    ELSE IF c.has_async
    THEN [c EXCEPT !.pc = "async", !.sync_raised = TRUE,
                   !.attempts = Append(@, "async")]
    ELSE returned_failed([c EXCEPT !.sync_raised = TRUE])

\* the wrapper once the asynchronous attempt ended
after_async(c, async_ok, docs) ==
    IF async_ok THEN returned_ok(c, docs)
    ELSE returned_failed([c EXCEPT !.async_raised = TRUE])

\* a wrapper is called; search_similar takes an optional filter, a deletion
\* always has one, the other two have none
wrapper_call ==
    /\ client.pc \in {"idle", "returned"}
    /\ \E op \in ClientOps, filter_metadata, has_async \in BOOLEAN :
          /\ op = "delete_by_metadata" => filter_metadata
          /\ op \in {"_add_batch_isolated", "search_with_scores"}
                 => ~filter_metadata
          /\ client' = wrapper_enter(op, filter_metadata, has_async)
    /\ UNCHANGED clientFrame

\* the synchronous method ends in the thread pool
sync_attempt_ends ==
    /\ client.pc = "sync"
    /\ \E sync_ok \in BOOLEAN, n \in 0..MaxHits :
          client' = after_sync(client, sync_ok, Hits(n))
    /\ UNCHANGED clientFrame

\* the asynchronous method ends on the event loop
async_attempt_ends ==
    /\ client.pc = "async"
    /\ \E async_ok \in BOOLEAN, n \in 0..MaxHits :
          client' = after_async(client, async_ok, Hits(n))
    /\ UNCHANGED clientFrame

(***************************************************************************)
(* KnowledgeBaseManager.add_file: several calls on one event loop          *)
(***************************************************************************)
AddTasks == 1..MaxAdders

IdleAdder == [pc |-> "idle", logged |-> FALSE, success |-> FALSE]

\* the entry of a call, with the file_path every entry carries; each call
\* has its own file
EntryOf(i, entry) ==
    [operation |-> entry.operation, success |-> entry.success,
     vector_result |-> entry.vector_result, file_path |-> i]

\* what the logging step of a call leaves of the call
Logged(saved, success) ==
    [pc |-> "done", logged |-> ~saved.raised, success |-> success /\ ~saved.raised]

\* add_file from its entry to "await self.vector_manager.add_documents": the
\* file is processed and validated; a file that cannot be read is logged by
\* the except branch, one without valid content returns without an entry
add_file_enters(i) ==
    /\ add_tasks[i].pc = "idle"
    /\ \E file \in IngestFiles :
          IF ~file.readable
          THEN LET saved == save_processing_metadata(
                                processing_log, EntryOf(i, ErrorEntry("add_file")),
                                kb_manager_collection \in collections)
               IN  /\ processing_log' = saved.log
                   /\ add_tasks' = [add_tasks EXCEPT ![i] = Logged(saved, FALSE)]
          ELSE IF validate_documents(file.chunks) = <<>>
          THEN /\ add_tasks' = [add_tasks EXCEPT ![i].pc = "done"]
               /\ UNCHANGED processing_log
          ELSE /\ add_tasks' = [add_tasks EXCEPT ![i].pc = "await_add"]
               /\ UNCHANGED processing_log
    /\ UNCHANGED adderFrame

\* add_file once add_documents returned: save_processing_metadata reads the
\* file, appends and writes it without an await, so the event loop runs the
\* step whole
add_file_logs(i) ==
    /\ add_tasks[i].pc = "await_add"
    /\ \E vector_result \in BOOLEAN :
          LET saved == save_processing_metadata(
                           processing_log,
                           EntryOf(i, LogEntry("add_file", vector_result)),
                           kb_manager_collection \in collections)
          IN  /\ processing_log' = saved.log
              /\ add_tasks' = [add_tasks EXCEPT ![i] = Logged(saved, vector_result)]
    /\ UNCHANGED adderFrame

\* add_file once add_documents raised: the except branch writes the error
\* entry
add_file_logs_error(i) ==
    /\ add_tasks[i].pc = "await_add"
    /\ LET saved == save_processing_metadata(
                        processing_log, EntryOf(i, ErrorEntry("add_file")),
                        kb_manager_collection \in collections)
       IN  /\ processing_log' = saved.log
           /\ add_tasks' = [add_tasks EXCEPT ![i] = Logged(saved, FALSE)]
    /\ UNCHANGED adderFrame

(***************************************************************************)
(* AsyncLoopManager: the singleton of src/utils/async_utils.py             *)
(***************************************************************************)
\* thread 0 imports the module, whose body ends with
\* "loop_manager = AsyncLoopManager()"; the other threads call the helpers
\* that construct AsyncLoopManager()
Importer == 0
Threads == 0..MaxThreads

\* the class before the module body reaches its construction: _instance is
\* None (0), the lock is free, no object was made
NoLoopManager == [instance |-> 0, objects |-> 0, lock_held |-> FALSE,
                  initialized |-> FALSE, executors |-> 0, imported |-> FALSE]

IdleThread == [pc |-> "idle", got |-> 0, constructions |-> 0]

\* a module without the import lock: every thread may construct at any time
may_construct_unlocked(a, t) == TRUE

\* the import lock of the module: until its body has run, and with it the
\* construction of loop_manager, no other thread gets at the class
may_construct(a, t) == t = Importer \/ a.imported

\* __new__, "if cls._instance is None" outside the lock
new_outer_check(a, th) ==
    IF a.instance = 0 THEN [th EXCEPT !.pc = "want_lock"]
    ELSE [th EXCEPT !.pc = "init_check", !.got = a.instance]

\* __new__, the body of "with cls._lock": the second check and
\* super().__new__(cls)
new_locked(a) ==
    IF a.instance = 0
    THEN [a EXCEPT !.objects = @ + 1, !.instance = a.objects + 1,
                   !.lock_held = FALSE]
    ELSE [a EXCEPT !.lock_held = FALSE]

\* __init__, "if not hasattr(self, '_initialized')"
needs_init(a) == ~a.initialized

\* __init__, the body of the if: a new ThreadPoolExecutor, the loop state
\* reset, then the flag
init_body(a) == [a EXCEPT !.executors = @ + 1, !.initialized = TRUE]

\* a thread calls AsyncLoopManager()
construct_enter(t) ==
    /\ alm_threads[t].pc = "idle"
    /\ may_construct(alm, t)
    /\ alm_threads[t].constructions
           < (IF t = Importer THEN 1 ELSE MaxConstructions)
    /\ alm_threads' = [alm_threads EXCEPT ![t] = new_outer_check(alm, @)]
    /\ UNCHANGED <<alm, loopFrame>>

\* "with cls._lock" is entered
lock_acquire(t) ==
    /\ alm_threads[t].pc = "want_lock"
    /\ ~alm.lock_held
    /\ alm' = [alm EXCEPT !.lock_held = TRUE]
    /\ alm_threads' = [alm_threads EXCEPT ![t].pc = "in_lock"]
    /\ UNCHANGED loopFrame

\* the locked block runs and __new__ returns cls._instance
locked_create(t) ==
    /\ alm_threads[t].pc = "in_lock"
    /\ alm' = new_locked(alm)
    /\ alm_threads' = [alm_threads EXCEPT ![t].pc = "init_check",
                                          ![t].got = alm'.instance]
    /\ UNCHANGED loopFrame

\* __init__ looks for the flag
init_check(t) ==
    /\ alm_threads[t].pc = "init_check"
    /\ alm_threads' = [alm_threads EXCEPT ![t].pc =
                           IF needs_init(alm) THEN "init_body" ELSE "returned"]
    /\ UNCHANGED <<alm, loopFrame>>

\* __init__ initialises the instance
init_runs(t) ==
    /\ alm_threads[t].pc = "init_body"
    /\ alm' = init_body(alm)
    /\ alm_threads' = [alm_threads EXCEPT ![t].pc = "returned"]
    /\ UNCHANGED loopFrame

\* the construction returns; that of the importer ends the module body
construct_returns(t) ==
    /\ alm_threads[t].pc = "returned"
    /\ alm_threads' = [alm_threads EXCEPT ![t].pc = "idle",
                                          ![t].constructions = @ + 1]
    /\ alm' = IF t = Importer THEN [alm EXCEPT !.imported = TRUE] ELSE alm
    /\ UNCHANGED loopFrame

(***************************************************************************)
(* Specification                                                           *)
(***************************************************************************)
\* the global KnowledgeBaseManager() is constructed at import, bound to the
\* collection the pointer names then
Init ==
    /\ collections = ExistingAtStart
    /\ current_collection_name \in ExistingAtStart
    /\ kb_manager_collection = current_collection_name
    /\ switch_status = 0
    /\ environ = None
    /\ created = ExistingAtStart
    /\ processing_log = <<>>
    /\ kb_op = NoOp
    /\ tmp_files = 0
    /\ upload = NoUpload
    /\ store = {}
    /\ vsm = NoCall
    /\ vs_calls = 0
    /\ web = NoSearch
    /\ rr = NoRerank
    /\ registry = EmptyRegistry
    /\ reg_op = NoRegOp
    /\ app_state = [models_initialized |-> FALSE]
    /\ served = 0
    /\ init_attempts = 0
    /\ http_response = NoHttpResponse
    /\ built_in_prompts = BuiltInPrompts
    /\ custom_prompts = <<>>
    /\ prompt_op = NoPromptOp
    /\ chat_tasks = [i \in ChatTasks |-> IdleTask]
    /\ pointer_at_start = current_collection_name
    /\ client = NoClientCall
    /\ add_tasks = [i \in AddTasks |-> IdleAdder]
    /\ alm = NoLoopManager
    /\ alm_threads = [t \in Threads |-> IdleThread]
    /\ IdleHandler

Next ==
    \/ chat_with_assistant
    \/ chat_returns
    \/ chat_raises
    \/ switch_knowledge_base
    \/ generate_stream
    \/ stream_loop_check
    \/ stream_yield
    \/ stream_sleep
    \/ stream_close
    \/ analyze_query
    \/ parallel_retrieval_start
    \/ retrieve_knowledge_task
    \/ search_web_task
    \/ parallel_retrieval
    \/ fuse_information
    \/ build_context
    \/ generate_response_start
    \/ astream_chunk
    \/ astream_end
    \/ astream_raises
    \/ ainvoke
    \/ request_done

Spec == Init /\ [][Next]_vars

\* the life cycle of collections: the manager's operations that make, remove
\* and select them, and the ingestion that fills the log of one of them,
\* issued one after the other
NextKb ==
    \/ CreateKnowledgeBase
    \/ DeleteKnowledgeBase
    \/ SwitchKnowledgeBase
    \/ ConstructManager
    \/ AddFile

SpecKb == Init /\ [][NextKb]_vars

\* selecting the current collection, by the manager and by POST /switch-kb,
\* among collections that come and go
NextSwitch ==
    \/ SwitchKnowledgeBase
    \/ switch_knowledge_base
    \/ CreateKnowledgeBase
    \/ DeleteKnowledgeBase

SpecSwitch == Init /\ [][NextSwitch]_vars

\* ingestion through the global manager, whose collection may be deleted
\* under it
NextIngest ==
    \/ AddFile
    \/ AddDirectory
    \/ UpdateFile
    \/ upload_files
    \/ DeleteKnowledgeBase

SpecIngest == Init /\ [][NextIngest]_vars

\* uploads of one file each to the global manager, whose collection may be
\* deleted under it
NextUpload ==
    \/ upload_file
    \/ DeleteKnowledgeBase

SpecUpload == Init /\ [][NextUpload]_vars

\* calls of the vector store manager, one after the other
NextVector ==
    \/ add_documents_call
    \/ update_documents_call
    \/ update_documents_delete
    \/ add_documents_batch_step
    \/ vector_call_returns

SpecVector == Init /\ [][NextVector]_vars

\* web searches, one after the other
NextSearch ==
    \/ web_search

SpecSearch == Init /\ [][NextSearch]_vars

\* rerank calls, one after the other
NextRerank ==
    \/ rerank_call

SpecRerank == Init /\ [][NextRerank]_vars

\* calls of the factories of the registry, one after the other
NextRegistry ==
    \/ get_model_call
    \/ get_vector_store_call
    \/ vector_store_manager_call

SpecRegistry == Init /\ [][NextRegistry]_vars

\* calls of the fallback-aware factory, one after the other
NextFallback ==
    \/ get_model_with_fallback_call

SpecFallback == Init /\ [][NextFallback]_vars

\* requests to the application, one after the other, beside other users of
\* the registry
NextGateway ==
    \/ http_request
    \/ get_model_call

SpecGateway == Init /\ [][NextGateway]_vars

\* operations on the custom prompts, one after the other
NextPrompts ==
    \/ AddCustomPrompt
    \/ UpdateCustomPrompt
    \/ DeleteCustomPrompt

SpecPrompts == Init /\ [][NextPrompts]_vars

\* POST /chat requests interleaved at their awaits, no other operation
NextChatTasks ==
    \/ \E i \in ChatTasks : chat_task_enters(i)
    \/ \E i \in ChatTasks : chat_task_returns(i)
    \/ \E i \in ChatTasks : chat_task_raises(i)

SpecChatTasks == Init /\ [][NextChatTasks]_vars

\* calls of the wrappers of the vector-store client, one at a time
NextClient ==
    \/ wrapper_call
    \/ sync_attempt_ends
    \/ async_attempt_ends

SpecClient == Init /\ [][NextClient]_vars

\* threads constructing AsyncLoopManager, interleaved at every step
NextLoopManager ==
    \/ \E t \in Threads : construct_enter(t)
    \/ \E t \in Threads : lock_acquire(t)
    \/ \E t \in Threads : locked_create(t)
    \/ \E t \in Threads : init_check(t)
    \/ \E t \in Threads : init_runs(t)
    \/ \E t \in Threads : construct_returns(t)

SpecLoopManager == Init /\ [][NextLoopManager]_vars

\* add_file calls on the global manager, interleaved at their awaits
NextAdders ==
    \/ \E i \in AddTasks : add_file_enters(i)
    \/ \E i \in AddTasks : add_file_logs(i)
    \/ \E i \in AddTasks : add_file_logs_error(i)

SpecAdders == Init /\ [][NextAdders]_vars

\* /chat/stream requests alone: the generator and the background workflow
NextStream ==
    \/ generate_stream
    \/ stream_loop_check
    \/ stream_yield
    \/ stream_sleep
    \/ stream_close
    \/ analyze_query
    \/ parallel_retrieval_start
    \/ retrieve_knowledge_task
    \/ search_web_task
    \/ parallel_retrieval
    \/ fuse_information
    \/ build_context
    \/ generate_response_start
    \/ astream_chunk
    \/ astream_end
    \/ astream_raises
    \/ request_done

\* the client keeps reading the response, so the event loop resumes the
\* generator at each yield and after each asyncio.sleep(0.1); nothing is
\* assumed of the workflow
SpecStreamLive ==
    /\ Init
    /\ [][NextStream]_vars
    /\ WF_vars(stream_loop_check)
    /\ WF_vars(stream_yield)
    /\ WF_vars(stream_sleep)
    /\ WF_vars(stream_close)


(***************************************************************************)
(* Properties                                                              *)
(***************************************************************************)
IsPrefix(a, b) == Len(a) <= Len(b) /\ a = SubSeq(b, 1, Len(a))
Occurs(x, s) == \E i \in 1..Len(s) : s[i] = x
IsNotStageNotice(ev) == ev[1] # "notify"
IsProgress(f) == f.type = "progress"
IsChunk(f) == f.type = "chunk"

ChatDone == handler_pc = "done" /\ request.kind = "chat"
StreamDone == handler_pc = "done" /\ request.kind = "stream"

\* C1: once a POST /chat request that names an existing collection has
\* finished, with a response or with an error, the current-collection pointer
\* holds the value it held when the request entered the handler.
C1_PointerRestored ==
    (ChatDone /\ request.collection_name \in collections)
        => current_collection_name = entry_collection

\* the request failed after it had swapped the pointer to another collection
C1_Witness ==
    /\ ChatDone
    /\ request.collection_name \in collections
    /\ request.collection_name # entry_collection
    /\ http_status = 500
    /\ current_collection_name = entry_collection

\* C2: a POST /chat request whose collection_name names no existing
\* collection is answered with 404 and leaves the pointer unchanged.
C2_MissingCollectionIs404 ==
    (ChatDone /\ request.collection_name # None
              /\ request.collection_name \notin collections)
        => (http_status = 404 /\ current_collection_name = entry_collection)

\* C3: the knowledge-base retrieval of a POST /chat request that names the
\* existing collection C runs against C.
C3_RetrievalUsesRequestedCollection ==
    (request.kind = "chat" /\ request.collection_name \in collections
                           /\ kb_search_collection # None)
        => kb_search_collection = request.collection_name

\* C4: within one run, with or without a stream callback, the stages begin
\* and end in the order query_analyzer, parallel_retrieval,
\* information_fusion, context_builder, response_generator, each at most
\* once and none before its predecessor has ended; a run that returns has
\* run all five.
ExpectedStageEvents ==
    [k \in 1..(2 * Len(StageOrder)) |->
        <<IF k % 2 = 1 THEN "begin" ELSE "end", (k + 1) \div 2>>]
RetrievalSettled ==
    /\ wf_pc \notin {"idle", "query_analyzer", "parallel_retrieval", "gather"}
    /\ knowledge_task.status # "unscheduled"
C5_PartialFailureIsolated ==
    /\ (RetrievalSettled /\ knowledge_task.status = "raised"
                         /\ web_task.status = "ok")
        => /\ Occurs(<<"end", 2>>, stage_log)
           /\ state.metadata.parallel_error = absent
           /\ state.metadata.knowledge_error # absent
           /\ state.metadata.knowledge_retrieved = 0
           /\ state.documents = <<>>
           /\ state.metadata.web_error = absent
           /\ state.web_results = web_task.result
           /\ state.metadata.web_retrieved = Len(web_task.result)
    /\ (RetrievalSettled /\ web_task.status = "raised"
                         /\ knowledge_task.status = "ok")
        => /\ Occurs(<<"end", 2>>, stage_log)
           /\ state.metadata.parallel_error = absent
           /\ state.metadata.web_error # absent
           /\ state.metadata.web_retrieved = 0
           /\ state.web_results = <<>>
           /\ state.metadata.knowledge_error = absent
           /\ state.documents = knowledge_task.result
           /\ state.metadata.knowledge_retrieved = Len(knowledge_task.result)

C5_Witness ==
    /\ RetrievalSettled
    /\ knowledge_task.status = "raised"
    /\ web_task.status = "ok"
    /\ Len(state.web_results) = 2
    /\ state.metadata.knowledge_error # absent

\* C6: after parallel_retrieval the recorded mode is the hybrid one exactly
\* when both sources yielded a result, the knowledge-base one exactly when
\* only the knowledge base did, the web one exactly when only the web search
\* did, and the no-results one exactly when neither did; a source that raised
\* or returned nothing has not yielded.
KnowledgeYielded == knowledge_task.status = "ok" /\ Len(knowledge_task.result) > 0
WebYielded == web_task.status = "ok" /\ Len(web_task.result) > 0
C6_ModeFromYield ==
    RetrievalSettled =>
        LET mode == state.metadata.retrieval_mode
        IN  /\ mode = "Hybrid Mode" <=> (KnowledgeYielded /\ WebYielded)
            /\ mode = "Knowledge Base Mode" <=> (KnowledgeYielded /\ ~WebYielded)
            /\ mode = "Web Mode" <=> (~KnowledgeYielded /\ WebYielded)
            /\ mode = "No Results" <=> (~KnowledgeYielded /\ ~WebYielded)

\* one source returned an empty list and the other raised
C6_Witness ==
    /\ RetrievalSettled
    /\ knowledge_task = [status |-> "ok", result |-> <<>>]
    /\ web_task.status = "raised"
    /\ state.metadata.retrieval_mode = "No Results"

\* C7: the template response_generator uses follows from the retrieval mode
\* alone: knowledge_only for the knowledge-base mode, web_only for the web
\* mode, the adaptive template for the hybrid mode and none (the fixed
\* fallback instruction) when there were no results, whatever strategy the
\* caller asked for; a generation that succeeds records that choice.
TemplateOfMode(mode) ==
    CASE mode = "Knowledge Base Mode" -> "knowledge_only"
      [] mode = "Web Mode" -> "web_only"
      [] mode = "Hybrid Mode" -> "rag_qa_adaptive"
      [] mode = "No Results" -> "fallback"
      [] OTHER -> "undetermined"
C7_PromptFromMode ==
    /\ gen.template # absent
        => gen.template = TemplateOfMode(state.metadata.retrieval_mode)
    /\ state.metadata.generation_successful = "True"
        => state.metadata.prompt_type_used =
               TemplateOfMode(state.metadata.retrieval_mode)

\* the caller asked for web_only and only the knowledge base yielded
C7_Witness ==
    /\ ChatDone
    /\ request.search_strategy = "web_only"
    /\ state.metadata.retrieval_mode = "Knowledge Base Mode"
    /\ state.metadata.prompt_type_used = "knowledge_only"

\* C8: when prompt rendering or the chat-model call raises inside
\* response_generator, run() returns: the response is the error text, the
\* error is recorded in the metadata, the success flag is false and nothing
\* is raised to the caller of run().
C8_GenerationErrorContained ==
    /\ gen.e # None
        => /\ wf_pc = "returned"
           /\ state.response = ErrorResponse
           /\ state.metadata.generation_error # absent
           /\ state.metadata.generation_successful = "False"
           /\ stream_callback => (workflow_complete /\ workflow_error = None)
    /\ (gen.e # None /\ ChatDone) => http_status = 200
    /\ wf_pc = "raised" => ~Occurs(<<"begin", 5>>, stage_log)

\* the model raised after it had streamed an increment
C8_Witness ==
    /\ gen.e # None
    /\ stream_callback
    /\ gen.full_response # <<>>
    /\ wf_pc = "returned"
    /\ state.response = ErrorResponse

\* C9: a /chat/stream request whose workflow returned emits the start frame,
\* then the frames the workflow produced, none lost, duplicated or out of
\* order, then the complete frame; the produced frames are the five progress
\* frames in stage order, each produced right before its stage begins, and
\* the chunk frames, all after the generation progress frame.
ProgressStages(frames) ==
    LET p == SelectSeq(frames, IsProgress)
    IN  [i \in 1..Len(p) |-> p[i].stage]
C9_FrameOrder ==
    request.kind = "stream" =>
        /\ emitted[1] = Frame("start", "", <<>>)
        /\ handler_pc # "done" => Tail(emitted) \o stream_queue = produced
        /\ (handler_pc = "done" /\ workflow_error = None)
            => emitted = <<Frame("start", "", <<>>)>> \o produced \o
                         <<Frame("complete", "", <<>>), DoneLine>>
        /\ IsPrefix(ProgressStages(produced), StageNotice)
        /\ wf_pc = "returned" => ProgressStages(produced) = StageNotice
        /\ \A i \in 1..Len(stage_log) :
              stage_log[i][1] = "begin"
                  => (i > 1 /\ stage_log[i - 1] = <<"notify", stage_log[i][2]>>)
        /\ \A i \in 1..Len(produced) :
              IsChunk(produced[i])
                  => \E j \in 1..(i - 1) :
                        produced[j] = Frame("progress", "generation", <<>>)

\* a finished stream that carried two chunk frames
C9_Witness ==
    /\ StreamDone
    /\ workflow_error = None
    /\ Len(SelectSeq(emitted, IsChunk)) = 2
    /\ emitted[Len(emitted)] = DoneLine

\* C10: every /chat/stream response, after a workflow that returned as after
\* an exception, ends with the [DONE] line.
C10_StreamEndsWithDone ==
    StreamDone => emitted[Len(emitted)] = DoneLine

\* C11: a /chat/stream response carries at most one error frame and keeps its
\* HTTP status 200; when an exception was raised while the response was
\* produced, the response ends with exactly one error frame and carries no
\* complete frame, and an error frame appears for no other reason.
IsError(f) == f.type = "error"
IsComplete(f) == f.type = "complete"
ChunkText(frames) ==
    LET c == SelectSeq(frames, IsChunk)
    IN  Flatten([i \in 1..Len(c) |-> c[i].content])
C12_ChunksEqualBatchResponse ==
    (StreamDone /\ workflow_error = None)
        => ChunkText(emitted) =
              (IF gen.e # None
               THEN generation_failed(state).state.response
               ELSE generation_succeeded(state, ModelText(gen.model_output),
                                         gen.template).response)

\* C13: a switch to an existing name, by POST /switch-kb or by the manager's
\* switch_knowledge_base, reports success and leaves the pointer on that
\* name; a switch to a name that does not exist is rejected and leaves the
\* pointer where it was.
C13_SwitchSetsPointer ==
    [][ /\ SwitchKnowledgeBase =>
              IF kb_op'.name \in list_knowledge_bases
              THEN kb_op'.success /\ current_collection_name' = kb_op'.name
              ELSE ~kb_op'.success /\ UNCHANGED current_collection_name
        /\ switch_knowledge_base =>
              IF switch_status' = 200
              THEN current_collection_name' \in list_knowledge_bases
              ELSE switch_status' = 404 /\ UNCHANGED current_collection_name
      ]_vars

\* C14: create_knowledge_base with a name whose sanitised form already
\* exists returns failure and changes nothing: the collections with their
\* directories and the processing log are as before the call.
C14_CreateExistingChangesNothing ==
    (kb_op.op = "create_knowledge_base" /\ kb_op.existed)
        => /\ ~kb_op.success
           /\ ~kb_op.changed
           /\ kb_op.name \in list_knowledge_bases

\* "kb a" was asked for while kb_a existed with entries in its log
C14_Witness ==
    /\ kb_op.op = "create_knowledge_base"
    /\ kb_op.input = <<"k", "b", " ", "a">>
    /\ kb_op.name = "kb_a"
    /\ kb_op.existed
    /\ ~kb_op.success
    /\ kb_manager_collection = "kb_a"
    /\ processing_log # <<>>
    /\ "kb_a" \in collections

\* C15: delete_knowledge_base without confirm returns failure, attempts no
\* drop in the vector database and changes nothing: a collection of that
\* name is still listed and its directory, with the log in it, is as before.
C15_UnconfirmedDeleteIsNoOp ==
    (kb_op.op = "delete_knowledge_base" /\ ~kb_op.confirm)
        => /\ ~kb_op.success
           /\ kb_op.drop = "none"
           /\ ~kb_op.changed
           /\ kb_op.existed => kb_op.name \in list_knowledge_bases

\* an unconfirmed delete of the collection the log lies in
C15_Witness ==
    /\ kb_op.op = "delete_knowledge_base"
    /\ ~kb_op.confirm
    /\ kb_op.name = kb_manager_collection
    /\ kb_op.name \in list_knowledge_bases
    /\ processing_log # <<>>
    /\ ~kb_op.success

\* C16: after delete_knowledge_base(name, confirm=True) returned success the
\* name is not listed and its directory is gone, whatever the drop in the
\* vector database did.
C16_DeletedIsGone ==
    (kb_op.op = "delete_knowledge_base" /\ kb_op.success)
        => /\ kb_op.confirm
           /\ kb_op.name \notin list_knowledge_bases
           /\ kb_op.name \notin collections

\* a successful delete whose drop raised
C16_Witness ==
    /\ kb_op.op = "delete_knowledge_base"
    /\ kb_op.success
    /\ kb_op.drop = "failed"
    /\ kb_op.name \notin list_knowledge_bases

\* C17: every listed name was made by a successful create_knowledge_base and
\* not deleted since.
C17_ListedOnlyIfCreated ==
    list_knowledge_bases \subseteq created

\* C18: an add_file whose file yields no chunk that passes validation
\* returns failure and has sent nothing to the vector store.
C18_NoValidChunkNoVectorCall ==
    (kb_op.op = "add_file" /\ validate_documents(kb_op.input[1].chunks) = <<>>)
        => (~kb_op.success /\ kb_op.vector_calls = 0)

\* a readable file all of whose chunks are blank or too short
C18_Witness ==
    /\ kb_op.op = "add_file"
    /\ kb_op.input[1].readable
    /\ kb_op.input[1].chunks # <<>>
    /\ validate_documents(kb_op.input[1].chunks) = <<>>
    /\ kb_op.outcome = "returned"
    /\ ~kb_op.success

\* C19: every add_file, add_directory and update_file call on a collection
\* whose directory exists, successful or failed, appends exactly one entry
\* to the processing log.
C19_EveryIngestionLogged ==
    (kb_op.op \in {"add_file", "add_directory", "update_file"}
        /\ kb_op.name \in list_knowledge_bases)
        => kb_op.appended = 1

C21_TempFileGone == upload.tmp_created => ~upload.tmp_left

\* the batches sent to the store by the running call, in order
SentBatches ==
    LET adds == SelectSeq(vsm.log, LAMBDA e : e.kind = "add")
    IN  [k \in 1..Len(adds) |-> adds[k].batch]

\* C22: add_documents on a non-empty list sends every consecutive batch of
\* it, in order, whatever became of the batches before; added_count +
\* failed_count is the number of documents, and success is failed_count = 0
C22_EveryBatchAttempted ==
    (vsm.pc = "done" /\ vsm.op = "add_documents" /\ vsm.documents # <<>>) =>
        /\ Flatten(SentBatches) = vsm.documents
        /\ \A k \in 1..Len(SentBatches) :
              /\ Len(SentBatches[k]) >= 1
              /\ Len(SentBatches[k]) <= vsm.batch_size
              /\ k < Len(SentBatches) => Len(SentBatches[k]) = vsm.batch_size
        /\ Len(vsm.summary.batch_results) = Len(SentBatches)
        /\ vsm.summary.added_count + vsm.summary.failed_count
               = Len(vsm.documents)
        /\ vsm.summary.success <=> (vsm.summary.failed_count = 0)

\* a call of three batches has returned, its first batch failed and a later
\* one added
C22_Witness ==
    /\ vsm.pc = "done" /\ vsm.op = "add_documents"
    /\ Len(SentBatches) = 3
    /\ ~vsm.summary.batch_results[1].success
    /\ vsm.summary.batch_results[3].success
    /\ ~vsm.summary.success

\* C23: update_documents sends a delete for every distinct source of its
\* documents before it sends any document, and when it reports success the
\* store holds none of the chunks it held for those sources before the call
C23_UpdateReplacesSources ==
    (vsm.op = "update_documents") =>
        /\ \A j, k \in 1..Len(vsm.log) :
              (vsm.log[j].kind = "add" /\ vsm.log[k].kind = "delete") => k < j
        /\ vsm.pc \in {"batches", "done"} =>
              {vsm.log[k].source : k \in {j \in 1..Len(vsm.log) :
                                            vsm.log[j].kind = "delete"}}
                  = vsm.sources
        /\ (vsm.pc = "done" /\ vsm.summary.success) =>
              \A c \in store : c.call < vs_calls => c.source \notin vsm.sources

\* the call asked the primary engine, and what that engine did
PrimaryAsked == web.queried # <<>> /\ Head(web.queried) = "tavily"
PrimaryFailed == web.primary.raised \/ web.primary.results = <<>>

\* C24: the primary engine is asked first, exactly when it is requested and
\* configured; once it was asked, the backup is asked only after it raised
\* or returned nothing, and its non-empty results are returned as they are;
\* the call never raises, and returns the empty list when both engines fail
C24_PrimaryThenBackup ==
    (web.preferred_engine # None) =>
        /\ PrimaryAsked <=> (web.preferred_engine = "tavily" /\ web.configured)
        /\ \A k \in 1..Len(web.queried) :
              web.queried[k] = "tavily" => k = 1
        /\ (PrimaryAsked /\ Len(web.queried) = 2) => PrimaryFailed
        /\ (PrimaryAsked /\ ~PrimaryFailed) =>
              web.queried = <<"tavily">> /\ web.results = web.primary.results
        /\ ~web.raised
        /\ (PrimaryAsked /\ PrimaryFailed
              /\ (web.backup.raised \/ web.backup.results = <<>>)) =>
              web.results = <<>>

\* the primary engine raised, the backup was asked and raised too
C24_Witness ==
    /\ web.preferred_engine = "tavily" /\ web.configured
    /\ web.primary.raised /\ web.backup.raised
    /\ web.queried = <<"tavily", "duckduckgo">>
    /\ web.results = <<>>

\* C25: when the vendor call raises, rerank with top_n = n returns
\* min(n, len(documents)) results, the i-th of them (from 0) being document
\* i with index i and score 1.0 - 0.1 * i (10 - i tenths)
C25_FallbackOrder ==
    (rr.called /\ rr.outcome = "raised" /\ rr.top_n_given) =>
        /\ Len(rr.results) = Min(rr.top_n, Len(rr.documents))
        /\ \A i \in 0..(Len(rr.results) - 1) :
              /\ rr.results[i + 1].index = i
              /\ rr.results[i + 1].document = rr.documents[i + 1]
              /\ rr.results[i + 1].relevance_score = 10 - i

\* the vendor raised on three documents of which two were asked for
C25_Witness ==
    /\ rr.called /\ rr.outcome = "raised" /\ rr.top_n_given
    /\ rr.top_n = 2 /\ Len(rr.documents) = 3 /\ Len(rr.results) = 2

\* C26: of every kind, the calls for one name are all handed the one client
\* built for that name, and a call is handed the client of the name it asked
\* for (the default name when it gave none)
C26_OneInstancePerName ==
    /\ \A kind \in Kinds, name \in RequestNames :
          /\ Cardinality(registry.returned[kind][name]) <= 1
          /\ registry.returned[kind][name] # {} => registry.built[kind][name] = 1
    /\ (reg_op.op \in {"get_model", "get_vector_store"} /\ ~reg_op.raised) =>
          reg_op.instance = IF reg_op.name = None
                            THEN default_models[reg_op.kind] ELSE reg_op.name

\* a call was served from the cache: the client of its name had been built
\* and handed out before
C26_Witness ==
    /\ reg_op.op = "get_model" /\ reg_op.kind = "chat" /\ reg_op.name = "fallback"
    /\ ~reg_op.raised /\ reg_op.serial = 1
    /\ registry.cache["chat"]["fallback"] = 1
    /\ registry.cache["chat"]["primary"] = 1
    /\ registry.returned["chat"]["primary"] = {1}

\* C27: a handle of the cache is bound to the collection it was made for,
\* and a request for a collection is handed a handle bound to that collection
C27_HandleBoundToCollection ==
    /\ (reg_op.op = "get_vector_store" /\ ~reg_op.raised) =>
          reg_op.collection = store_collection[reg_op.instance]
    /\ (reg_op.op = "VectorStoreManager") =>
          ~reg_op.raised /\ reg_op.collection = reg_op.name

\* the candidates in the order the claim gives them: the caller's name, when
\* there is one, then the declared chain
Candidates ==
    IF reg_op.name = None THEN fallback_chain[reg_op.kind]
    ELSE <<reg_op.name>> \o SelectSeq(fallback_chain[reg_op.kind],
                                      LAMBDA n : n # reg_op.name)

\* C28: with fallback enabled the candidates are attempted in that order,
\* each after the one before it failed; the call returns the first that could
\* be had and attempts none after it, and raises only after all have failed
C28_FallbackOrder ==
    (reg_op.op = "get_model_with_fallback" /\ reg_op.enabled) =>
        /\ Len(reg_op.attempts) <= Len(Candidates)
        /\ \A k \in 1..Len(reg_op.attempts) :
              /\ reg_op.attempts[k].name = Candidates[k]
              /\ k < Len(reg_op.attempts) => reg_op.attempts[k].failed
        /\ ~reg_op.raised =>
              /\ reg_op.attempts # <<>>
              /\ ~reg_op.attempts[Len(reg_op.attempts)].failed
              /\ reg_op.instance = reg_op.attempts[Len(reg_op.attempts)].name
        /\ reg_op.raised =>
              /\ Len(reg_op.attempts) = Len(Candidates)
              /\ \A k \in 1..Len(reg_op.attempts) : reg_op.attempts[k].failed

\* C29: the default models are initialised by the first request and by no
\* other: initialisation is begun at most once
C29_InitOnFirstRequestOnly ==
    /\ init_attempts <= 1
    /\ http_response.init_attempted => http_response.request = 1

\* C30: every response carries the X-Process-Time header
C30_EveryResponseTimed ==
    http_response.status_code # 0 => "X-Process-Time" \in http_response.headers

\* C31: an exception a route raises once the models are initialised is
\* answered by global_exception_handler, and the "Model initialization
\* failed" response is given only when the initialisation raised
C31_RouteErrorsReachGlobalHandler ==
    /\ (http_response.route_raised /\ ~http_response.init_attempted) =>
          http_response.status_code = 500
          /\ http_response.error = "Internal server error"
    /\ (http_response.error = "Model initialization failed") =>
          http_response.init_raised

\* C32: a lookup gives the custom template stored under the name when there
\* is one and otherwise the built-in template of the name as the code
\* defines it, and the built-in templates are never changed or removed
C32_CustomShadowsBuiltIn ==
    /\ built_in_prompts = BuiltInPrompts
    /\ \A name \in PromptNames :
          get_prompt(built_in_prompts, custom_prompts, name, TRUE)
              = IF name \in DOMAIN custom_prompts THEN {custom_prompts[name]}
                ELSE IF name \in DOMAIN BuiltInPrompts THEN {BuiltInPrompts[name]}
                ELSE {}

\* a custom template of a built-in name was updated, and another built-in
\* name has no custom template
C32_Witness ==
    /\ prompt_op.op = "update_custom_prompt" /\ prompt_op.name = "rag_qa"
    /\ prompt_op.success
    /\ "rag_qa" \in DOMAIN custom_prompts
    /\ custom_prompts["rag_qa"].template = "t2"
    /\ "web_only" \notin DOMAIN custom_prompts

\* C33: once all the concurrent POST /chat requests, of which some name a
\* collection, have finished, and no switch was issued, the pointer is what
\* it was before the first of them started
C33_ConcurrentChatsRestorePointer ==
    (/\ \A i \in ChatTasks : chat_tasks[i].pc = "done"
     /\ \E i \in ChatTasks : chat_tasks[i].original_collection # UNBOUND)
        => current_collection_name = pointer_at_start

\* C34: a wrapper attempts the client's asynchronous method only after the
\* synchronous attempt has raised, and when both attempts have failed it
\* returns its failure value (False, no documents, the failure record) and
\* does not raise; what it reports is what the shared strategy reports
C34_AsyncOnlyAfterSyncRaised ==
    /\ client.attempts \in {<<>>, <<"sync">>, <<"sync", "async">>}
    /\ Len(client.attempts) = 2 => client.sync_raised /\ client.has_async
    /\ client.pc = "returned" =>
          /\ ~client.raised
          /\ client.ok = prefer_sync(~client.sync_raised, client.has_async,
                                     ~client.async_raised)
          /\ (client.sync_raised /\ client.async_raised) =>
                 ~client.ok /\ client.docs = <<>>

\* a search whose synchronous and asynchronous attempts both raised
C34_Witness ==
    /\ client.op = "search_similar"
    /\ client.pc = "returned"
    /\ client.attempts = <<"sync", "async">>
    /\ client.sync_raised /\ client.async_raised
    /\ client.docs = <<>>

\* C35: once the background workflow of a /chat/stream request has ended,
\* returned or raised, the stream comes to its end with the queue empty, every
\* queued frame delivered in order after the start frame, and a terminal
\* frame last: the [DONE] line after the complete frame, or the error frame
StreamEnded ==
    /\ handler_pc = "done"
    /\ request.kind = "stream"
    /\ stream_queue = <<>>
    /\ Len(emitted) > 1 + Len(produced)
    /\ SubSeq(emitted, 2, 1 + Len(produced)) = produced
    /\ emitted[Len(emitted)].type \in {"DONE", "error"}
C35_StreamEventuallyEnds ==
    (request.kind = "stream" /\ workflow_complete) ~> StreamEnded

\* a stream that ended after its workflow raised with frames queued
C35_Witness ==
    /\ StreamEnded
    /\ workflow_error # None
    /\ Len(produced) >= 2

\* C36: after any sequence of create, switch and delete operations the
\* current-collection pointer names a collection that exists, also after the
\* collection that is current was deleted
C36_PointerNamesExistingCollection ==
    current_collection_name \in list_knowledge_bases

\* C37: a create_knowledge_base call that returned failure left the listed
\* collections as they were, so its name, unless it existed before the call,
\* is not listed and a later create of it is not rejected as existing
C37_FailedCreateLeavesNothing ==
    (kb_op.op = "create_knowledge_base" /\ ~kb_op.success) =>
        /\ ~kb_op.changed
        /\ (kb_op.outcome = "error" /\ ~kb_op.existed) =>
               /\ kb_op.name \notin list_knowledge_bases
               /\ create_knowledge_base(kb_op.input, list_knowledge_bases,
                                        TRUE).outcome # "exists"

\* C38: with several add_file calls on one collection interleaved on one
\* event loop, the processing log holds one entry for each call that reached
\* its logging step and no other entry: none is overwritten or lost
EntriesOf(i) == SelectSeq(processing_log, LAMBDA e : e.file_path = i)
C38_OneEntryPerLoggedCall ==
    /\ \A i \in AddTasks :
          Len(EntriesOf(i)) = IF add_tasks[i].logged THEN 1 ELSE 0
    /\ Len(processing_log) = Cardinality({i \in AddTasks : add_tasks[i].logged})

\* every call has logged, and the call that logged first is not the first
C38_Witness ==
    /\ \A i \in AddTasks : add_tasks[i].pc = "done" /\ add_tasks[i].logged
    /\ Len(processing_log) = MaxAdders
    /\ processing_log[1].file_path = MaxAdders
    /\ processing_log[MaxAdders].file_path = 1

\* C39: get_knowledge_base_stats counts every entry of the processing log in
\* total_operations and, in successful_operations, the logged operations
\* that reported success to their caller: neither an error entry nor an
\* operation whose vector-store add failed
ReportedSuccess(op) == op.vector_result = "True"
C39_StatsCountReportedSuccess ==
    LET stats == get_knowledge_base_stats(processing_log)
    IN  /\ stats.total_operations = Len(processing_log)
        /\ stats.successful_operations
               = Len(SelectSeq(processing_log, ReportedSuccess))

\* C40: every construction of AsyncLoopManager, those of concurrent threads
\* included, returns the one instance, and the thread pool and the loop state
\* are initialised exactly once: never twice, and before any construction
\* has returned
C40_SingletonInitialisedOnce ==
    /\ alm.objects <= 1
    /\ alm.executors <= 1
    /\ \A t \in Threads :
          /\ alm_threads[t].got # 0 => alm_threads[t].got = alm.instance
          /\ (alm_threads[t].pc = "returned" \/ alm_threads[t].constructions > 0)
                => (alm.executors = 1 /\ alm.initialized
                    /\ alm_threads[t].got = 1)

\* two threads are inside their constructions at once after a third has had
\* the instance twice
C40_Witness ==
    /\ alm_threads[1].pc = "init_check"
    /\ alm_threads[2].pc = "returned"
    /\ alm_threads[3].constructions = 2
    /\ alm.executors = 1

====
